---- MODULE Spec2Model ----
(***************************************************************************)
(* A model of the verdure IoC container (verdure-ioc/src/container.rs) and *)
(* of the configuration manager (verdure-context/src/config.rs,            *)
(* profile.rs).                                                            *)
(*                                                                         *)
(* The container is modelled step by step: initialize() walks the          *)
(* registry, resolve_bean() is a stack of frames, one frame per recursive  *)
(* call.  An error return unwinds the whole stack at once, because every   *)
(* caller propagates it with `?` and touches no state on the way.          *)
(***************************************************************************)
EXTENDS Naturals, Sequences, FiniteSets, TLC

VARIABLES
    registry,       \* inventory::iter::<ComponentDefinition>: the definitions, in iteration order
    components,     \* ComponentContainer.components (qualifier None): type id -> instance
    initializing,   \* ComponentContainer.initializing: the visiting set
    stats,          \* ComponentContainer.stats: the type ids that have a ComponentStats entry
    events,         \* what lifecycle_publisher.publish() and the context's publishes have dispatched, in order
    pc,             \* per thread: "idle" (outside initialize) or "loop" (inside it)
    init_idx,       \* per thread: position of initialize()'s second for loop
    stack,          \* per thread: the resolve_bean frames, innermost last
    result,         \* per thread: what the last initialize() returned
    snapshot,       \* per thread: the store as it was when the current/last initialize() began
    next_inst,      \* the identity the next Arc allocation gets
    invocations,    \* history: every call of a definition's creator, with the map it was given
    manual,         \* history: identities of the instances passed to register_component
    n_calls,        \* history: number of initialize() calls begun
    errors,         \* history: every Err a resolve_bean produced, with the call it belongs to
    sources,        \* ConfigManager.sources
    cache,          \* ConfigManager.cache
    profiles,       \* ProfileManager.profiles
    active_profiles,\* ProfileManager.active_profiles
    overrides,      \* history: key -> the value of the latest set(key, _), if any
    store_call,     \* per thread: the register_component / get_component call it is in or has just left
    profile_call,   \* history: the latest ProfileManager call made directly, and what it returned
    typed_result,   \* history: the latest typed accessor call and what it returned
    event_publisher,\* ApplicationContext.event_publisher: EventPublisher.listeners and .context_aware_listeners
    publisher_log,  \* history: the listeners subscribed, those cleared, and the listener calls of the latest publish
    context_call,   \* the ApplicationContext::initialize() call in progress or just returned
    file_call       \* the text handed to the file parsers, and what the latest parsing call returned

container_vars == <<registry, components, initializing, stats, events, pc, init_idx,
                    stack, result, snapshot, next_inst, invocations, manual, n_calls, errors>>
config_vars == <<sources, cache, profiles, active_profiles, overrides>>
call_vars == <<store_call, profile_call, typed_result>>
event_vars == <<event_publisher, publisher_log, context_call>>
vars == <<registry, components, initializing, stats, events, pc, init_idx,
          stack, result, snapshot, next_inst, invocations, manual, n_calls, errors,
          sources, cache, profiles, active_profiles, overrides,
          store_call, profile_call, typed_result,
          event_publisher, publisher_log, context_call, file_call>>

----------------------------------------------------------------------------
(* Bounds of the exploration.                                              *)

\* Total number of declared dependencies over the whole registry.
MaxEdges == 2
\* Number of initialize() calls on the one container.
MaxCalls == 2
\* Number of register_component calls on the one container.
MaxManual == 1

----------------------------------------------------------------------------
(* The registry.                                                           *)

\* Type identities.  "A", "B", "C" have a definition; "X" never has one.
TypeIds == {"A", "B", "C", "X"}
DefinedTypes == <<"A", "B", "C">>
NoType == "none"

Threads == {"main", "worker"}

NoInstance == [id |-> 0, concrete |-> NoType]
NoDef == [type_id |-> NoType, type_name |-> "Unknow", scope |-> "Singleton",
          dependencies |-> <<>>, creator_fails |-> FALSE]

\* stringify!(#struct_name) of each defined type.
TypeName(t) ==
    CASE t = "A" -> "Alpha" [] t = "B" -> "Beta" [] t = "C" -> "Gamma" [] OTHER -> "Unknow"

\* Dependency lists: Vec<TypeId> without repetition.
DepLists ==
    {s \in UNION {[1..n -> TypeIds] : n \in 0..MaxEdges} :
        \A i, j \in DOMAIN s : i # j => s[i] # s[j]}

RECURSIVE SumLen(_, _)
SumLen(f, i) == IF i = 0 THEN 0 ELSE Len(f[i]) + SumLen(f, i - 1)

\* A ComponentDefinition record (component.rs): creator_fails says whether the
\* creator returns Err.
MakeDef(t, deps, proto, failing) ==
    [type_id |-> t, type_name |-> TypeName(t),
     scope |-> IF t = proto THEN "Prototype" ELSE "Singleton",
     dependencies |-> deps, creator_fails |-> (t = failing)]

\* HashMap def_map built by initialize()'s first loop: the last definition of a
\* type identity wins.
RECURSIVE DefMapUpTo(_, _, _)
DefMapUpTo(reg, t, i) ==
    IF i = 0 THEN NoDef
    ELSE IF reg[i].type_id = t THEN reg[i] ELSE DefMapUpTo(reg, t, i - 1)

DefMap(t) == DefMapUpTo(registry, t, Len(registry))

----------------------------------------------------------------------------
(* ContainerError values (verdure-core/src/error/container.rs): the kind   *)
(* and the one datum the formatted message carries.                        *)

NoResult == [kind |-> "none", msg |-> "none"]
OkResult == [kind |-> "Ok", msg |-> "none"]
circular_dependency(type_name) == [kind |-> "CircularDependency", msg |-> type_name]
not_found(type_id) == [kind |-> "NotFound", msg |-> type_id]
creation_failed(type_name) == [kind |-> "CreationFailed", msg |-> type_name]

----------------------------------------------------------------------------
(* The decisions resolve_bean and initialize take, one operator each.      *)

\* Mutant of NeedsResolve: the store is not consulted before resolving.
NeedsResolveAlways(t) == TRUE

\* initialize(): `if !self.components.contains_key(&descriptor)`.
NeedsResolve(t) == components[t] = NoInstance

\* Mutant of DepInStore: a stored dependency is resolved afresh.
DepInStoreNever(dep) == FALSE

\* resolve_bean(): `if let Some(instance) = self.components.get(&dep_descriptor)`.
DepInStore(dep) == components[dep] # NoInstance

\* resolve_bean(): `if let Some(_dep_def) = def_map.get(&dep_id)`.
DepDefined(dep) == DefMap(dep) # NoDef

\* resolve_bean(): `!self.initializing.insert(descriptor.type_id)` is true when
\* the type is already being resolved.
AlreadyVisiting(t) == t \in initializing

\* Mutant of StoreAfterCreate: the scope is not looked at.
StoreAfterCreateAlways(def, inst) == [components EXCEPT ![def.type_id] = inst]

\* resolve_bean(): `match (def.scope)() { Singleton => self.components.insert(..), _ => {} }`.
StoreAfterCreate(def, inst) ==
    IF def.scope = "Singleton"
    THEN [components EXCEPT ![def.type_id] = inst]
    ELSE components

\* Mutant of CreatorError: the error is named after the component whose
\* resolution initialize() started, not after the one whose creator failed.
CreatorErrorRewrapped(def) == creation_failed(DefMap(stack["main"][1].type_id).type_name)

\* resolve_bean(): the error a failed creator is mapped to.
CreatorError(def) == creation_failed(def.type_name)

\* Mutant of MissingDependencyError: reported as a failed creation of `t`.
MissingDependencyErrorAsCreation(t, dep) == creation_failed(DefMap(t).type_name)

\* resolve_bean(): the error for an unknown dependency of the frame for `t`.
MissingDependencyError(t, dep) == not_found(dep)

\* Mutant of CycleError: the re-entered type is reported as not found.
CycleErrorAsNotFound(t) == not_found(t)

\* resolve_bean(): the error when the type is found in the visiting set.
CycleError(t) == circular_dependency(DefMap(t).type_name)

\* The visiting set after resolve_bean for `t` returns an error it produced
\* itself (each such path calls self.initializing.remove first).
InitializingAfterOwnError(t) == initializing \ {t}

\* The visiting set after the `?` on a recursive resolve_bean call, and on the
\* call in initialize(), passes a dependency's error on: the callers remove
\* nothing.
InitializingAfterPropagation(callers) == initializing

\* The instance a creator builds: Arc::new of the definition's own type.
NewInstance(t) == [id |-> next_inst, concrete |-> t]

EmptyDeps == [d \in TypeIds |-> NoInstance]
NewFrame(t) == [type_id |-> t, entered |-> FALSE, dep_idx |-> 1, deps_map |-> EmptyDeps]

Top(th) == stack[th][Len(stack[th])]
Callers(th) == {stack[th][i].type_id : i \in 1..(Len(stack[th]) - 1)}
StoreSize == Cardinality({t \in TypeIds : components[t] # NoInstance})

Event(type, name, tid, count) ==
    [type |-> type, component_name |-> name, component_type_id |-> tid,
     component_count |-> count]

----------------------------------------------------------------------------
(* Container actions.                                                      *)

\* ComponentContainer::register_component: keyed by the instance's own type.
\* Explored only while a call of initialize() can still follow (n_calls below
\* its bound): a registration after the last explored call is seen by nothing.
RegisterComponent(th, t) ==
    /\ pc[th] = "idle"
    /\ Cardinality(manual) < MaxManual
    /\ n_calls < MaxCalls
    /\ components' = [components EXCEPT ![t] = NewInstance(t)]
    /\ manual' = manual \cup {next_inst}
    /\ next_inst' = next_inst + 1
    /\ result' = [result EXCEPT ![th] = NoResult]
    /\ UNCHANGED <<registry, initializing, stats, events, pc, init_idx, stack,
                   snapshot, invocations, n_calls, errors>>
    /\ UNCHANGED <<config_vars, call_vars, event_vars, file_call>>

\* initialize(), up to the second for loop: publish InitializationStarted and
\* build def_map.
Initialize(th) ==
    /\ pc[th] = "idle"
    /\ n_calls < MaxCalls
    /\ n_calls' = n_calls + 1
    /\ events' = Append(events, Event("InitializationStarted", "none", NoType, Len(registry)))
    /\ pc' = [pc EXCEPT ![th] = "loop"]
    /\ init_idx' = [init_idx EXCEPT ![th] = 1]
    /\ result' = [result EXCEPT ![th] = NoResult]
    /\ snapshot' = [snapshot EXCEPT ![th] = components]
    /\ UNCHANGED <<registry, components, initializing, stats, stack, next_inst,
                   invocations, manual, errors>>
    /\ UNCHANGED <<config_vars, call_vars, event_vars, file_call>>

\* One iteration of initialize()'s second for loop, or its end: publish
\* InitializationCompleted and return Ok(()).
InitializeLoop(th) ==
    /\ pc[th] = "loop"
    /\ stack[th] = <<>>
    /\ IF init_idx[th] > Len(registry)
       THEN /\ events' = Append(events,
                   Event("InitializationCompleted", "none", NoType, StoreSize))
            /\ result' = [result EXCEPT ![th] = OkResult]
            /\ pc' = [pc EXCEPT ![th] = "idle"]
            /\ UNCHANGED <<stack, init_idx>>
       ELSE /\ IF NeedsResolve(registry[init_idx[th]].type_id)
               THEN /\ stack' = [stack EXCEPT
                                   ![th] = <<NewFrame(registry[init_idx[th]].type_id)>>]
                    /\ UNCHANGED init_idx
               ELSE /\ init_idx' = [init_idx EXCEPT ![th] = @ + 1]
                    /\ UNCHANGED stack
            /\ UNCHANGED <<events, result, pc>>
    /\ UNCHANGED <<registry, components, initializing, stats, snapshot, next_inst,
                   invocations, manual, n_calls, errors>>
    /\ UNCHANGED <<config_vars, call_vars, event_vars, file_call>>

\* Mutant of ReturnErr: initialize() drops the error and goes on with the next
\* definition.
ReturnErrSwallowed(th, err) ==
    /\ stack' = [stack EXCEPT ![th] = <<>>]
    /\ init_idx' = [init_idx EXCEPT ![th] = @ + 1]
    /\ errors' = Append(errors, [call |-> n_calls, err |-> err, n_inv |-> Len(invocations)])
    /\ UNCHANGED <<result, pc>>

\* An Err return of the innermost resolve_bean: every caller, and initialize(),
\* passes it on with `?`.
ReturnErr(th, err) ==
    /\ stack' = [stack EXCEPT ![th] = <<>>]
    /\ result' = [result EXCEPT ![th] = err]
    /\ pc' = [pc EXCEPT ![th] = "idle"]
    /\ errors' = Append(errors, [call |-> n_calls, err |-> err, n_inv |-> Len(invocations)])
    /\ UNCHANGED init_idx

\* An Ok(instance) return of the innermost resolve_bean: to the calling frame's
\* deps_map, or to initialize()'s loop.
ReturnOk(th, t, inst) ==
    /\ IF Len(stack[th]) > 1
       THEN /\ stack' = [stack EXCEPT ![th] =
                   [i \in 1..(Len(@) - 1) |->
                       IF i = Len(@) - 1
                       THEN [@[i] EXCEPT !.deps_map[t] = inst, !.dep_idx = @ + 1]
                       ELSE @[i]]]
            /\ UNCHANGED init_idx
       ELSE /\ stack' = [stack EXCEPT ![th] = <<>>]
            /\ init_idx' = [init_idx EXCEPT ![th] = @ + 1]
    /\ UNCHANGED <<result, pc, errors>>

\* resolve_bean, entry: the visiting-set check and the definition lookup.
ResolveBeanEnter(th) ==
    /\ pc[th] = "loop"
    /\ stack[th] # <<>>
    /\ ~Top(th).entered
    /\ LET t == Top(th).type_id IN
       IF AlreadyVisiting(t)
       THEN /\ initializing' = InitializingAfterPropagation(Callers(th))
            /\ ReturnErr(th, CycleError(t))
       ELSE IF DefMap(t) = NoDef
       THEN /\ initializing' = InitializingAfterPropagation(Callers(th))
            /\ ReturnErr(th, not_found(t))
       ELSE /\ initializing' = initializing \cup {t}
            /\ stack' = [stack EXCEPT ![th][Len(stack[th])].entered = TRUE]
            /\ UNCHANGED <<result, pc, init_idx, errors>>
    /\ UNCHANGED <<registry, components, stats, events, snapshot, next_inst,
                   invocations, manual, n_calls>>
    /\ UNCHANGED <<config_vars, call_vars, event_vars, file_call>>

\* resolve_bean, one iteration of `for dep_id in dependencies`.
ResolveBeanDependency(th) ==
    /\ pc[th] = "loop"
    /\ stack[th] # <<>>
    /\ Top(th).entered
    /\ Top(th).dep_idx <= Len(DefMap(Top(th).type_id).dependencies)
    /\ LET t == Top(th).type_id
           dep == DefMap(t).dependencies[Top(th).dep_idx]
       IN
       IF DepInStore(dep)
       THEN /\ stack' = [stack EXCEPT ![th][Len(stack[th])] =
                   [@ EXCEPT !.deps_map[dep] = components[dep], !.dep_idx = @ + 1]]
            /\ UNCHANGED <<initializing, result, pc, init_idx, errors>>
       ELSE IF DepDefined(dep)
       THEN /\ stack' = [stack EXCEPT ![th] = Append(@, NewFrame(dep))]
            /\ UNCHANGED <<initializing, result, pc, init_idx, errors>>
       ELSE /\ initializing' = InitializingAfterOwnError(t) \cap
                                   InitializingAfterPropagation(Callers(th))
            /\ ReturnErr(th, MissingDependencyError(t, dep))
    /\ UNCHANGED <<registry, components, stats, events, snapshot, next_inst,
                   invocations, manual, n_calls>>
    /\ UNCHANGED <<config_vars, call_vars, event_vars, file_call>>

\* resolve_bean, after the dependency loop: call the creator, publish
\* ComponentCreated, leave the visiting set, store a Singleton, record stats,
\* return.
ResolveBeanCreate(th) ==
    /\ pc[th] = "loop"
    /\ stack[th] # <<>>
    /\ Top(th).entered
    /\ Top(th).dep_idx > Len(DefMap(Top(th).type_id).dependencies)
    /\ LET t == Top(th).type_id
           def == DefMap(t)
           inst == NewInstance(t)
       IN
       /\ invocations' = Append(invocations,
              [type_id |-> t, deps_map |-> Top(th).deps_map, call |-> n_calls,
               inst |-> IF def.creator_fails THEN NoInstance ELSE inst])
       /\ IF def.creator_fails
          THEN /\ initializing' = InitializingAfterOwnError(t) \cap
                                      InitializingAfterPropagation(Callers(th))
               /\ ReturnErr(th, CreatorError(def))
               /\ UNCHANGED <<components, stats, events, next_inst>>
          ELSE /\ events' = Append(events,
                      Event("ComponentCreated", def.type_name, t, 0))
               /\ initializing' = initializing \ {t}
               /\ components' = StoreAfterCreate(def, inst)
               /\ stats' = stats \cup {t}
               /\ next_inst' = next_inst + 1
               /\ ReturnOk(th, t, inst)
    /\ UNCHANGED <<registry, snapshot, manual, n_calls>>
    /\ UNCHANGED <<config_vars, call_vars, event_vars, file_call>>

----------------------------------------------------------------------------
(* Configuration: ConfigManager (config.rs) and ProfileManager             *)
(* (profile.rs).                                                           *)

\* Number of configuration sources added to the one manager.
MaxSources == 2

Keys == {"k", "j"}
Strings == {"1", "2"}
Absent == "absent"
ProfileNames == {"p1", "p2"}

\* HashMap<String, String> over the keys of the model.
PropertyMaps == [Keys -> Strings \cup {Absent}]

\* Option<ConfigValue>: None, or a tagged value.
NoValue == [tag |-> "None", val |-> Absent]
StringValue(s) == [tag |-> "String", val |-> s]

\* ConfigSource::Properties(props).
PropertiesSource(props) == [kind |-> "Properties", props |-> props]

NoProfile == [present |-> FALSE, properties |-> [k \in Keys |-> Absent], active |-> FALSE]

\* Vec::contains.
Contains(seq, x) == \E i \in DOMAIN seq : seq[i] = x

\* Vec::retain(|name| name != x).
RECURSIVE Retain(_, _)
Retain(seq, x) ==
    IF seq = <<>> THEN <<>>
    ELSE IF Head(seq) = x THEN Retain(Tail(seq), x)
    ELSE <<Head(seq)>> \o Retain(Tail(seq), x)

\* Mutant of ProfileLookup: the active profiles are searched in the order they
\* were activated, so the first activated wins.
RECURSIVE ProfileLookupForwardFrom(_, _)
ProfileLookupForwardFrom(key, j) ==
    IF j > Len(active_profiles) THEN Absent
    ELSE IF /\ profiles[active_profiles[j]].present
            /\ profiles[active_profiles[j]].properties[key] # Absent
         THEN profiles[active_profiles[j]].properties[key]
         ELSE ProfileLookupForwardFrom(key, j + 1)

ProfileLookupForward(key, i) == ProfileLookupForwardFrom(key, 1)

\* ProfileManager::get_property: the active profiles, last activated first.
RECURSIVE ProfileLookup(_, _)
ProfileLookup(key, i) ==
    IF i = 0 THEN Absent
    ELSE IF /\ profiles[active_profiles[i]].present
            /\ profiles[active_profiles[i]].properties[key] # Absent
         THEN profiles[active_profiles[i]].properties[key]
         ELSE ProfileLookup(key, i - 1)

get_property(key) == ProfileLookup(key, Len(active_profiles))

\* The four file-backed variants of ConfigSource.
FileKinds == {"TomlFile", "YamlFile", "PropertiesFile", "ConfigFile"}

\* ConfigSource::TomlFile(path) and the like; props is the flat map
\* load_file_config returns for the file at that path.
FileSource(kind, props) == [kind |-> kind, props |-> props]

\* ConfigSource::Environment; it carries nothing.
EnvironmentSource == [kind |-> "Environment", props |-> [k \in Keys |-> Absent]]

\* key.to_uppercase().replace('.', "_") over the keys of the model.
EnvKey(key) == CASE key = "k" -> "K" [] key = "j" -> "J"

\* std::env::var: the environment of the process, the same during a run.
\* K is set and J is not.
EnvVar(name) == IF name = "K" THEN "2" ELSE Absent

\* ConfigManager::get_from_source.
get_from_source(source, key) ==
    CASE source.kind = "Properties" \/ source.kind \in FileKinds ->
            IF source.props[key] # Absent THEN StringValue(source.props[key]) ELSE NoValue
      [] source.kind = "Environment" ->
            IF EnvVar(EnvKey(key)) # Absent THEN StringValue(EnvVar(EnvKey(key))) ELSE NoValue
      [] OTHER -> NoValue

\* Mutant of SourceLookup: the sources are searched in the order they were
\* added, so the first added wins.
RECURSIVE SourceLookupForwardFrom(_, _)
SourceLookupForwardFrom(key, j) ==
    IF j > Len(sources) THEN NoValue
    ELSE IF get_from_source(sources[j], key) # NoValue
         THEN get_from_source(sources[j], key)
         ELSE SourceLookupForwardFrom(key, j + 1)

SourceLookupForward(key, i) == SourceLookupForwardFrom(key, 1)

\* ConfigManager::get, the loop `for source in self.sources.iter().rev()`.
RECURSIVE SourceLookup(_, _)
SourceLookup(key, i) ==
    IF i = 0 THEN NoValue
    ELSE IF get_from_source(sources[i], key) # NoValue
         THEN get_from_source(sources[i], key)
         ELSE SourceLookup(key, i - 1)

\* ConfigManager::get without its cache: profiles, then sources.
Resolve(key) ==
    IF get_property(key) # Absent
    THEN StringValue(get_property(key))
    ELSE SourceLookup(key, Len(sources))

\* ConfigManager::get: what it returns.
GetResult(key) == IF cache[key] # NoValue THEN cache[key] ELSE Resolve(key)

\* ConfigManager::get: the cache it leaves (a found value is inserted).
CacheAfterGet(key) ==
    IF cache[key] # NoValue THEN cache
    ELSE [cache EXCEPT ![key] = Resolve(key)]

\* ConfigManager::invalidate_cache: self.cache.clear().
ClearedCache == [k \in Keys |-> NoValue]

\* Mutant of CacheAfterSet: set clears the cache before it inserts.
CacheAfterSetClearing(key, value) == [ClearedCache EXCEPT ![key] = value]

\* ConfigManager::set: what it does to the cache.
CacheAfterSet(key, value) == [cache EXCEPT ![key] = value]

\* ConfigManager::add_source: what it does to the cache.
CacheAfterAddSource == ClearedCache

\* ConfigManager::add_source.
AddSource(props) ==
    /\ Len(sources) < MaxSources
    /\ sources' = Append(sources, PropertiesSource(props))
    /\ cache' = CacheAfterAddSource
    /\ UNCHANGED <<profiles, active_profiles, overrides>>
    /\ UNCHANGED <<container_vars, call_vars, event_vars, file_call>>

\* ConfigManager::set.
Set(key, value) ==
    /\ cache' = CacheAfterSet(key, value)
    /\ overrides' = [overrides EXCEPT ![key] = value]
    /\ UNCHANGED <<sources, profiles, active_profiles>>
    /\ UNCHANGED <<container_vars, call_vars, event_vars, file_call>>

\* ConfigManager::get.
Get(key) ==
    /\ cache' = CacheAfterGet(key)
    /\ UNCHANGED <<sources, profiles, active_profiles, overrides>>
    /\ UNCHANGED <<container_vars, call_vars, event_vars, file_call>>

\* ConfigManager::invalidate_cache.
InvalidateCache ==
    /\ cache' = ClearedCache
    /\ UNCHANGED <<sources, profiles, active_profiles, overrides>>
    /\ UNCHANGED <<container_vars, call_vars, event_vars, file_call>>

\* ContextResult<()> of the ProfileManager calls.  invalid_configuration is
\* given the key "profile.<name>"; the model keeps the name.
ContextOk == [kind |-> "Ok"]
invalid_configuration(name) == [kind |-> "InvalidConfiguration", key |-> name]
profile_not_found(name) == [kind |-> "ProfileNotFound", profile |-> name]

\* Mutant of AddProfileResult: a second profile of the same name is accepted.
AddProfileResultLenient(name) == ContextOk

\* ProfileManager::add_profile: what it returns.
AddProfileResult(name) ==
    IF profiles[name].present THEN invalid_configuration(name) ELSE ContextOk

\* ProfileManager::activate_profile: what it returns.
ActivateProfileResult(name) ==
    IF ~profiles[name].present THEN profile_not_found(name) ELSE ContextOk

\* ProfileManager::add_profile (the Err return leaves everything as it was).
\* The three ProfileManager actions say nothing of profile_call: the caller
\* does.
AddProfile(name, props) ==
    /\ IF profiles[name].present
       THEN UNCHANGED profiles
       ELSE profiles' = [profiles EXCEPT
                ![name] = [present |-> TRUE, properties |-> props, active |-> FALSE]]
    /\ UNCHANGED <<sources, cache, active_profiles, overrides>>
    /\ UNCHANGED <<container_vars, store_call, typed_result, event_vars, file_call>>

\* ProfileManager::activate_profile (Err for an unknown name).
ActivateProfile(name) ==
    /\ IF ~profiles[name].present
       THEN UNCHANGED <<profiles, active_profiles>>
       ELSE /\ profiles' = [profiles EXCEPT ![name].active = TRUE]
            /\ active_profiles' =
                   IF ~Contains(active_profiles, name)
                   THEN Append(active_profiles, name)
                   ELSE active_profiles
    /\ UNCHANGED <<sources, cache, overrides>>
    /\ UNCHANGED <<container_vars, store_call, typed_result, event_vars, file_call>>

\* ProfileManager::deactivate_profile.
DeactivateProfile(name) ==
    /\ profiles' = IF profiles[name].present
                   THEN [profiles EXCEPT ![name].active = FALSE]
                   ELSE profiles
    /\ active_profiles' = Retain(active_profiles, name)
    /\ UNCHANGED <<sources, cache, overrides>>
    /\ UNCHANGED <<container_vars, store_call, typed_result, event_vars, file_call>>

----------------------------------------------------------------------------
(* Initial states and specifications.                                      *)

\* ComponentContainer::new(), on a process whose registry holds one
\* definition for each of A, B, C.
ContainerNew ==
    /\ components = [t \in TypeIds |-> NoInstance]
    /\ initializing = {}
    /\ stats = {}
    /\ events = <<>>
    /\ pc = [th \in Threads |-> "idle"]
    /\ init_idx = [th \in Threads |-> 1]
    /\ stack = [th \in Threads |-> <<>>]
    /\ result = [th \in Threads |-> NoResult]
    /\ snapshot = [th \in Threads |-> [t \in TypeIds |-> NoInstance]]
    /\ next_inst = 1
    /\ invocations = <<>>
    /\ manual = {}
    /\ n_calls = 0
    /\ errors = <<>>

\* ConfigManager::new().
ConfigNew ==
    /\ sources = <<>>
    /\ cache = ClearedCache
    /\ profiles = [p \in ProfileNames |-> NoProfile]
    /\ active_profiles = <<>>
    /\ overrides = [k \in Keys |-> NoValue]

\* No call of the store, of the ProfileManager or of a typed accessor has been made.
NoCall == [op |-> "none"]

\* The event types listeners subscribe to: the two ApplicationContext
\* publishes from initialize().
EventTypes == {"ContextInitializing", "ContextInitialized", "ConfigurationChanged"}

\* EventPublisher::new(): both maps empty (a missing entry and an empty Vec
\* dispatch alike).
EventPublisherNew ==
    [listeners |-> [e \in EventTypes |-> <<>>],
     context_aware_listeners |-> [e \in EventTypes |-> <<>>]]

\* Nothing subscribed, cleared or published yet.
PublisherLogNew == [subscribed |-> {}, cleared |-> {}, calls |-> <<>>, op |-> "none"]

\* ApplicationContext::initialize() has not been called.
NoContextCall ==
    [op |-> "none", phase |-> "returned", call |-> 0, first |-> 1,
     result |-> NoResult]

CallsNew ==
    /\ store_call = [th \in Threads |-> NoCall]
    /\ profile_call = NoCall
    /\ typed_result = NoCall
    /\ event_publisher = EventPublisherNew
    /\ publisher_log = PublisherLogNew
    /\ context_call = NoContextCall

Init ==
    /\ \E deps \in [1..Len(DefinedTypes) -> DepLists] :
       \E proto \in {DefinedTypes[i] : i \in DOMAIN DefinedTypes} \cup {NoType} :
       \E failing \in {DefinedTypes[i] : i \in DOMAIN DefinedTypes} \cup {NoType} :
          /\ SumLen(deps, Len(DefinedTypes)) <= MaxEdges
          /\ registry = [i \in DOMAIN DefinedTypes |->
                            MakeDef(DefinedTypes[i], deps[i], proto, failing)]
    /\ ContainerNew
    /\ ConfigNew
    /\ CallsNew
    /\ file_call = NoCall

Next ==
    \/ \E t \in TypeIds : RegisterComponent("main", t)
    \/ Initialize("main")
    \/ InitializeLoop("main")
    \/ ResolveBeanEnter("main")
    \/ ResolveBeanDependency("main")
    \/ ResolveBeanCreate("main")

Spec == Init /\ [][Next]_vars

InitConfig ==
    /\ registry = <<>>
    /\ ContainerNew
    /\ ConfigNew
    /\ CallsNew
    /\ file_call = NoCall

NextConfig ==
    \/ \E props \in PropertyMaps : AddSource(props)
    \/ \E key \in Keys, s \in Strings : Set(key, StringValue(s))
    \/ \E key \in Keys : Get(key)
    \/ InvalidateCache
    \/ \E props \in PropertyMaps : AddProfile("p1", props) /\ UNCHANGED profile_call
    \/ ActivateProfile("p1") /\ UNCHANGED profile_call
    \/ DeactivateProfile("p1") /\ UNCHANGED profile_call

SpecConfig == InitConfig /\ [][NextConfig]_vars

\* A ProfileManager of its own, called directly; every call is recorded with
\* the profile map and the active list it found.
ProfileCall(op, name, props, res) ==
    profile_call' = [op |-> op, name |-> name, props |-> props, res |-> res,
                     profiles_before |-> profiles, active_before |-> active_profiles]

NoProps == [k \in Keys |-> Absent]

NextProfile ==
    \/ \E name \in ProfileNames, props \in PropertyMaps :
          /\ AddProfile(name, props)
          /\ ProfileCall("add_profile", name, props, AddProfileResult(name))
    \/ \E name \in ProfileNames :
          /\ ActivateProfile(name)
          /\ ProfileCall("activate_profile", name, NoProps, ActivateProfileResult(name))
    \/ \E name \in ProfileNames :
          /\ DeactivateProfile(name)
          /\ ProfileCall("deactivate_profile", name, NoProps, ContextOk)

SpecProfile == InitConfig /\ [][NextProfile]_vars

----------------------------------------------------------------------------
(* The component store called from two threads: register_component,        *)
(* register_component_by_type_id and get_component.  A call is two steps,   *)
(* its start and the one DashMap operation it makes (with which it          *)
(* returns), so that calls of the two threads overlap.                      *)

\* Number of register calls on the one container.
MaxRegistrations == 3

\* The concrete types and keys the calls are made with.
StoreTypes == {"A", "B"}

\* The thread is between the start of a store call and its DashMap operation.
InStoreCall(th) == store_call[th].op # "none" /\ store_call[th].phase = "called"

\* register_component(): `(*instance).type_id()`, the identity of the concrete
\* type behind the Arc<dyn Any>.
TypeIdOf(inst) == inst.concrete

\* Mutant of StoreAfterRegister: an occupied key keeps its entry.
StoreAfterRegisterKeepFirst(key, inst) ==
    IF components[key] # NoInstance THEN components
    ELSE [components EXCEPT ![key] = inst]

\* register_component_by_type_id(): self.components.insert(descriptor, instance),
\* the descriptor being (type_id, None).
StoreAfterRegister(key, inst) == [components EXCEPT ![key] = inst]

\* Mutant of get_component_by_type_id: the lookup finds nothing.
get_component_by_type_id_missing(type_id) == NoInstance

\* get_component_by_type_id(): Some(clone of the entry), or None.
get_component_by_type_id(type_id) == components[type_id]

\* Mutant of Downcast: the cast never succeeds.
DowncastNever(inst, T) == NoInstance

\* Mutant of Downcast: the cast is not checked.
DowncastUnchecked(inst, T) == inst

\* Arc<dyn Any>::downcast::<T>().ok(): the handle when the concrete type is T.
Downcast(inst, T) == IF inst # NoInstance /\ inst.concrete = T THEN inst ELSE NoInstance

\* get_component::<T>().
get_component(T) == Downcast(get_component_by_type_id(T), T)

StoreCall(op, key, inst) ==
    [op |-> op, key |-> key, inst |-> inst, phase |-> "called", ret |-> NoInstance,
     seen |-> {components[key]}, overwritten |-> FALSE]

\* A thread calls register_component with a fresh Arc of concrete type t.
RegisterComponentCall(th, t) ==
    /\ ~InStoreCall(th)
    /\ next_inst <= MaxRegistrations
    /\ store_call' = [store_call EXCEPT
           ![th] = StoreCall("register_component", TypeIdOf(NewInstance(t)), NewInstance(t))]
    /\ next_inst' = next_inst + 1
    /\ manual' = manual \cup {next_inst}
    /\ UNCHANGED <<registry, components, initializing, stats, events, pc, init_idx,
                   stack, result, snapshot, invocations, n_calls, errors>>
    /\ UNCHANGED <<config_vars, profile_call, typed_result, event_vars, file_call>>

\* A thread calls register_component_by_type_id with a key of its choice and a
\* fresh Arc of concrete type t.
RegisterComponentByTypeIdCall(th, key, t) ==
    /\ ~InStoreCall(th)
    /\ next_inst <= MaxRegistrations
    /\ store_call' = [store_call EXCEPT
           ![th] = StoreCall("register_component_by_type_id", key, NewInstance(t))]
    /\ next_inst' = next_inst + 1
    /\ manual' = manual \cup {next_inst}
    /\ UNCHANGED <<registry, components, initializing, stats, events, pc, init_idx,
                   stack, result, snapshot, invocations, n_calls, errors>>
    /\ UNCHANGED <<config_vars, profile_call, typed_result, event_vars, file_call>>

\* The insert of a register call, and its return.  History: the gets in
\* flight on the key have now seen the instance too, and the earlier
\* registrations of the key are overwritten.
RegisterInsert(th) ==
    /\ InStoreCall(th)
    /\ store_call[th].op \in {"register_component", "register_component_by_type_id"}
    /\ components' = StoreAfterRegister(store_call[th].key, store_call[th].inst)
    /\ store_call' = [o \in Threads |->
           IF o = th THEN [store_call[th] EXCEPT !.phase = "returned"]
           ELSE IF store_call[o].op = "none" \/ store_call[o].key # store_call[th].key
                THEN store_call[o]
           ELSE IF store_call[o].op = "get_component"
                THEN IF store_call[o].phase = "called"
                     THEN [store_call[o] EXCEPT !.seen = @ \cup {store_call[th].inst}]
                     ELSE store_call[o]
           ELSE IF store_call[o].phase = "returned"
                THEN [store_call[o] EXCEPT !.overwritten = TRUE]
                ELSE store_call[o]]
    /\ UNCHANGED <<registry, initializing, stats, events, pc, init_idx, stack, result,
                   snapshot, next_inst, invocations, manual, n_calls, errors>>
    /\ UNCHANGED <<config_vars, profile_call, typed_result, event_vars, file_call>>

\* A thread calls get_component::<T>().
GetComponentCall(th, T) ==
    /\ ~InStoreCall(th)
    /\ store_call' = [store_call EXCEPT ![th] = StoreCall("get_component", T, NoInstance)]
    /\ UNCHANGED container_vars
    /\ UNCHANGED <<config_vars, profile_call, typed_result, event_vars, file_call>>

\* The lookup of a get_component call, the downcast, and its return.
GetComponentLookup(th) ==
    /\ InStoreCall(th)
    /\ store_call[th].op = "get_component"
    /\ store_call' = [store_call EXCEPT
           ![th] = [store_call[th] EXCEPT
                       !.phase = "returned", !.ret = get_component(store_call[th].key)]]
    /\ UNCHANGED container_vars
    /\ UNCHANGED <<config_vars, profile_call, typed_result, event_vars, file_call>>

NextStore ==
    \/ \E th \in Threads, t \in StoreTypes : RegisterComponentCall(th, t)
    \/ \E th \in Threads, key \in StoreTypes, t \in StoreTypes :
          RegisterComponentByTypeIdCall(th, key, t)
    \/ \E th \in Threads : RegisterInsert(th)
    \/ \E th \in Threads, T \in StoreTypes : GetComponentCall(th, T)
    \/ \E th \in Threads : GetComponentLookup(th)

SpecStore == InitConfig /\ [][NextStore]_vars

----------------------------------------------------------------------------
(* Typed configuration values and the typed accessors of ConfigManager     *)
(* (config.rs).                                                            *)

\* The String payloads: those of the sources, and some that parse as a
\* number, as a boolean token, or as nothing.
TypedStrings == Strings \cup {"0", "1.5", "TRUE", "no", "abc"}
\* The i64 payloads.
TypedIntegers == {0, 1, 2}
\* The f64 payloads, counted in tenths: 15 is 1.5.
TypedFloats == {0, 15}

IntegerValue(i) == [tag |-> "Integer", int |-> i]
FloatValue(f) == [tag |-> "Float", tenths |-> f]
BooleanValue(b) == [tag |-> "Boolean", bool |-> b]
ArrayValue == [tag |-> "Array", items |-> <<>>]
ObjectValue == [tag |-> "Object", entries |-> <<>>]

\* The ConfigValue given to set().
TypedValues ==
    {StringValue(s) : s \in TypedStrings} \cup {IntegerValue(i) : i \in TypedIntegers}
    \cup {FloatValue(f) : f \in TypedFloats} \cup {BooleanValue(b) : b \in BOOLEAN}
    \cup {ArrayValue, ObjectValue}

\* Option<String>, Option<i64>, Option<f64>, Option<bool>.
None == [none |-> TRUE]
SomeString(s) == [string |-> s]
SomeInteger(i) == [int |-> i]
SomeFloat(f) == [tenths |-> f]
SomeBoolean(b) == [bool |-> b]

\* i64::to_string, f64::to_string (1.0 prints as "1"), bool::to_string.
IntegerToString(i) ==
    CASE i = 0 -> "0" [] i = 1 -> "1" [] i = 2 -> "2"
FloatToString(f) ==
    CASE f = 0 -> "0" [] f = 10 -> "1" [] f = 20 -> "2" [] f = 15 -> "1.5"
BooleanToString(b) == IF b THEN "true" ELSE "false"

\* str::parse::<i64>().ok().
ParseInteger(s) ==
    CASE s = "0" -> SomeInteger(0)
      [] s = "1" -> SomeInteger(1)
      [] s = "2" -> SomeInteger(2)
      [] OTHER -> None

\* str::parse::<f64>().ok().
ParseFloat(s) ==
    CASE s = "0" -> SomeFloat(0)
      [] s = "1" -> SomeFloat(10)
      [] s = "2" -> SomeFloat(20)
      [] s = "1.5" -> SomeFloat(15)
      [] OTHER -> None

\* `*i as f64`.
IntegerAsFloat(i) == i * 10

\* str::to_lowercase.
ToLowercase(s) == IF s = "TRUE" THEN "true" ELSE s

\* ConfigValue::as_string.
as_string(v) ==
    CASE v.tag = "String" -> SomeString(v.val)
      [] v.tag = "Integer" -> SomeString(IntegerToString(v.int))
      [] v.tag = "Float" -> SomeString(FloatToString(v.tenths))
      [] v.tag = "Boolean" -> SomeString(BooleanToString(v.bool))
      [] OTHER -> None

\* ConfigValue::as_integer.
as_integer(v) ==
    CASE v.tag = "Integer" -> SomeInteger(v.int)
      [] v.tag = "String" -> ParseInteger(v.val)
      [] OTHER -> None

\* ConfigValue::as_float.
as_float(v) ==
    CASE v.tag = "Float" -> SomeFloat(v.tenths)
      [] v.tag = "Integer" -> SomeFloat(IntegerAsFloat(v.int))
      [] v.tag = "String" -> ParseFloat(v.val)
      [] OTHER -> None

\* ConfigValue::as_boolean.
as_boolean(v) ==
    CASE v.tag = "Boolean" -> SomeBoolean(v.bool)
      [] v.tag = "String" ->
            IF ToLowercase(v.val) \in {"true", "yes", "on", "1"} THEN SomeBoolean(TRUE)
            ELSE IF ToLowercase(v.val) \in {"false", "no", "off", "0"} THEN SomeBoolean(FALSE)
            ELSE None
      [] v.tag = "Integer" -> SomeBoolean(v.int # 0)
      [] OTHER -> None

\* ContextResult<T>.
configuration_not_found(key) == [kind |-> "ConfigurationNotFound", key |-> key]
Ok(x) == [kind |-> "Ok", value |-> x]

\* self.get(key).and_then(|v| v.as_X()), given what get returned and what
\* as_X makes of a value.
AndThen(got, coerced) == IF got = NoValue THEN None ELSE coerced

\* Mutant of OkOrElseNotFound: a failed coercion is not turned into an error.
OkOrElseUnchecked(opt, key) == Ok(opt)

\* .ok_or_else(|| ContextError::configuration_not_found(key)).
OkOrElseNotFound(opt, key) == IF opt = None THEN configuration_not_found(key) ELSE Ok(opt)

\* ConfigManager::get_string / get_integer / get_float / get_boolean: what
\* they return.
get_string(key) == OkOrElseNotFound(AndThen(GetResult(key), as_string(GetResult(key))), key)
get_integer(key) == OkOrElseNotFound(AndThen(GetResult(key), as_integer(GetResult(key))), key)
get_float(key) == OkOrElseNotFound(AndThen(GetResult(key), as_float(GetResult(key))), key)
get_boolean(key) == OkOrElseNotFound(AndThen(GetResult(key), as_boolean(GetResult(key))), key)

\* Result::unwrap_or / unwrap_or_else(|_| default).
UnwrapOr(res, default) == IF res.kind = "Ok" THEN res.value ELSE default

\* ConfigManager::get_string_or_default / get_integer_or_default /
\* get_boolean_or_default: what they return.
get_string_or_default(key, default) == UnwrapOr(get_string(key), SomeString(default))
get_integer_or_default(key, default) == UnwrapOr(get_integer(key), SomeInteger(default))
get_boolean_or_default(key, default) == UnwrapOr(get_boolean(key), SomeBoolean(default))

\* A typed accessor is called: it calls get(key), which may fill the cache.
TypedCall(op, key, default, res) ==
    /\ cache' = CacheAfterGet(key)
    /\ typed_result' = [op |-> op, key |-> key, default |-> default,
                        got |-> GetResult(key), res |-> res]
    /\ UNCHANGED <<sources, profiles, active_profiles, overrides>>
    /\ UNCHANGED <<container_vars, store_call, profile_call, event_vars, file_call>>

GetString(key) == TypedCall("get_string", key, None, get_string(key))
GetInteger(key) == TypedCall("get_integer", key, None, get_integer(key))
GetFloat(key) == TypedCall("get_float", key, None, get_float(key))
GetBoolean(key) == TypedCall("get_boolean", key, None, get_boolean(key))
GetStringOrDefault(key, default) ==
    TypedCall("get_string_or_default", key, SomeString(default),
              get_string_or_default(key, default))
GetIntegerOrDefault(key, default) ==
    TypedCall("get_integer_or_default", key, SomeInteger(default),
              get_integer_or_default(key, default))
GetBooleanOrDefault(key, default) ==
    TypedCall("get_boolean_or_default", key, SomeBoolean(default),
              get_boolean_or_default(key, default))

\* The defaults the callers supply.
DefaultStrings == {"default"}
DefaultIntegers == {42}

\* The values reach the manager through set(); the accessors are called on
\* keys that hold a value of any variant and on keys that hold none.
NextTyped ==
    \/ \E key \in Keys, value \in TypedValues : Set(key, value)
    \/ \E key \in Keys : GetString(key)
    \/ \E key \in Keys : GetInteger(key)
    \/ \E key \in Keys : GetFloat(key)
    \/ \E key \in Keys : GetBoolean(key)
    \/ \E key \in Keys, default \in DefaultStrings : GetStringOrDefault(key, default)
    \/ \E key \in Keys, default \in DefaultIntegers : GetIntegerOrDefault(key, default)
    \/ \E key \in Keys, default \in BOOLEAN : GetBooleanOrDefault(key, default)

SpecTyped == InitConfig /\ [][NextTyped]_vars

----------------------------------------------------------------------------
(* Vocabulary of the container properties.                                 *)

Main == "main"

\* initialize() has just returned on the main thread.
Returned == result[Main] # NoResult
\* The main thread is inside initialize().
InCall == pc[Main] = "loop"

DepSet(t) == LET deps == DefMap(t).dependencies IN {deps[i] : i \in DOMAIN deps}

\* The declared dependencies of every type.
DepSets == [t \in TypeIds |-> DepSet(t)]

RECURSIVE Closure(_, _, _)
Closure(D, S, n) ==
    LET more == S \cup UNION {D[t] : t \in S}
    IN  IF n = 0 \/ more = S THEN S ELSE Closure(D, more, n - 1)

\* The types that lie on a dependency cycle: those reachable from themselves
\* over one or more declared dependencies.
CycleTypes ==
    LET D == DepSets
    IN  {t \in TypeIds : t \in Closure(D, D[t], Cardinality(TypeIds))}
HasCycle ==
    LET D == DepSets
    IN  \E t \in TypeIds : t \in Closure(D, D[t], Cardinality(TypeIds))

AllFactoriesSucceed == \A i \in DOMAIN registry : ~registry[i].creator_fails
AllDepsDefined == \A i \in DOMAIN registry : \A d \in DepSet(registry[i].type_id) : DepDefined(d)
SingletonTypes == {registry[i].type_id : i \in {k \in DOMAIN registry : registry[k].scope = "Singleton"}}
PrototypeTypes == {registry[i].type_id : i \in {k \in DOMAIN registry : registry[k].scope = "Prototype"}}

\* The creator calls of type t made by initialize() call number c.
InvocationsOf(t, c) ==
    {j \in DOMAIN invocations : invocations[j].type_id = t /\ invocations[j].call = c}
\* The creator calls of the current (or latest) initialize() call.
ThisCall == {j \in DOMAIN invocations : invocations[j].call = n_calls}

\* Every creator call of the current (or latest) initialize() call was handed,
\* for each declared dependency type, an instance of that type that was
\* available: in the store when the call began, registered by hand, or built
\* by an earlier creator call of the same initialize() call.
DepsWereAvailable ==
    \A j \in ThisCall :
        \A d \in DepSet(invocations[j].type_id) :
            LET got == invocations[j].deps_map[d] IN
            /\ got # NoInstance
            /\ got.concrete = d
            /\ \/ got = snapshot[Main][d]
               \/ \E k \in 1..(j - 1) :
                    /\ invocations[k].call = n_calls
                    /\ invocations[k].type_id = d
                    /\ invocations[k].inst = got

\* What was in the store when the call began is there unchanged.
SnapshotKept == \A t \in TypeIds : snapshot[Main][t] # NoInstance => components[t] = snapshot[Main][t]
\* Every Singleton the call built is in the store.
CreatedSingletonsKept ==
    \A j \in ThisCall :
        (invocations[j].inst # NoInstance /\ invocations[j].type_id \in SingletonTypes)
            => components[invocations[j].type_id] = invocations[j].inst

----------------------------------------------------------------------------
(* C1 *)

\* C1 as stated: for an acyclic registry whose factories all succeed, a call of
\* initialize() invokes the factory of each Singleton definition exactly once,
\* each with all its declared dependencies in the map.
C1_AsStated ==
    (Returned /\ ~HasCycle /\ AllFactoriesSucceed) =>
        /\ \A t \in SingletonTypes : Cardinality(InvocationsOf(t, n_calls)) = 1
        /\ DepsWereAvailable

\* C1, amended: for an acyclic registry whose factories all succeed, a call of
\* initialize() that returns Ok has invoked the factory of each Singleton
\* definition once if its type had no store entry when the call began and not
\* at all otherwise; no call invokes a Singleton's factory twice; and every
\* factory invocation was given an instance of each declared dependency type.
C1_ExactlyOnce ==
    /\ DepsWereAvailable
    /\ \A t \in SingletonTypes : Cardinality(InvocationsOf(t, n_calls)) <= 1
    /\ (Returned /\ result[Main] = OkResult /\ AllFactoriesSucceed /\ ~HasCycle) =>
          \A t \in SingletonTypes :
              Cardinality(InvocationsOf(t, n_calls)) =
                  IF snapshot[Main][t] = NoInstance THEN 1 ELSE 0

\* An Ok call that built a Singleton with a dependency which a second
\* definition shares.
C1_Witness ==
    /\ Returned /\ result[Main] = OkResult /\ ~HasCycle /\ AllFactoriesSucceed
    /\ \E j1, j2 \in ThisCall :
          /\ j1 # j2
          /\ invocations[j1].type_id \in SingletonTypes
          /\ invocations[j2].type_id \in SingletonTypes
          /\ DepSet(invocations[j1].type_id) \cap DepSet(invocations[j2].type_id)
                 \cap SingletonTypes # {}

----------------------------------------------------------------------------
(* C2 *)

\* C2 as stated: for every registry with a dependency cycle, initialize()
\* returns CircularDependency and the singletons inserted before are kept.
C2_AsStated ==
    (Returned /\ HasCycle) =>
        /\ result[Main].kind = "CircularDependency"
        /\ CreatedSingletonsKept
        /\ SnapshotKept

\* C2, amended: for every registry with a dependency cycle, whose factories all
\* succeed and whose declared dependencies all have definitions, initialize()
\* returns CircularDependency when no type on a cycle is in the store as the
\* call begins; and whatever a call on a cyclic registry returns, the
\* singletons inserted before are still in the store with the same instance.
C2_CycleDetected ==
    (Returned /\ HasCycle) =>
        /\ (AllFactoriesSucceed /\ AllDepsDefined
              /\ \A t \in CycleTypes : snapshot[Main][t] = NoInstance)
                => result[Main].kind = "CircularDependency"
        /\ CreatedSingletonsKept
        /\ SnapshotKept

\* A call that stored a singleton and then ran into a cycle.
C2_Witness ==
    /\ Returned /\ HasCycle /\ AllFactoriesSucceed /\ AllDepsDefined
    /\ \A t \in CycleTypes : snapshot[Main][t] = NoInstance
    /\ result[Main].kind = "CircularDependency"
    /\ \E j \in ThisCall : components[invocations[j].type_id] = invocations[j].inst

----------------------------------------------------------------------------
(* C3 *)

\* C3: after any call of initialize() returns, Ok or Err, the visiting set is
\* empty.
C3_VisitingSetEmptyOnReturn == Returned => initializing = {}

----------------------------------------------------------------------------
(* C4 *)

\* C4: a type that has a store entry when initialize() is called is not
\* re-created: its factory is not invoked by the call, its store entry holds
\* the same instance during and after the call, and every dependent built by
\* the call that declares it was given the stored instance.
C4_NeverRecreated ==
    (InCall \/ Returned) =>
        \A t \in TypeIds :
            snapshot[Main][t] # NoInstance =>
                /\ InvocationsOf(t, n_calls) = {}
                /\ components[t] = snapshot[Main][t]
                /\ \A j \in ThisCall :
                      t \in DepSet(invocations[j].type_id)
                          => invocations[j].deps_map[t] = snapshot[Main][t]

\* A call has returned that built a dependent of a defined type registered by
\* hand beforehand.
C4_Witness ==
    /\ Returned
    /\ \E t \in TypeIds :
          /\ DepDefined(t)
          /\ snapshot[Main][t] # NoInstance
          /\ snapshot[Main][t].id \in manual
          /\ \E j \in ThisCall : t \in DepSet(invocations[j].type_id)

----------------------------------------------------------------------------
(* C5 *)

\* C5: when a resolution fails, initialize() returns the first error
\* encountered and resolves nothing further (no creator runs after the error,
\* no second error arises), and nothing is rolled back: what was in the store
\* before the call and every singleton the call inserted are still there.
C5_FirstErrorNoRollback ==
    /\ \A i \in DOMAIN errors :
          /\ \A k \in DOMAIN errors : errors[k].call = errors[i].call => k = i
          /\ \A j \in DOMAIN invocations :
                invocations[j].call = errors[i].call => j <= errors[i].n_inv + 1
          /\ (errors[i].call = n_calls /\ Returned) => result[Main] = errors[i].err
          /\ errors[i].call = n_calls => ~InCall
    /\ (Returned /\ result[Main] # OkResult) =>
          /\ \E i \in DOMAIN errors : errors[i].call = n_calls /\ errors[i].err = result[Main]
          /\ SnapshotKept
          /\ CreatedSingletonsKept

\* A failed call that had already inserted a singleton, on a store that held an
\* entry before the call.
C5_Witness ==
    /\ Returned /\ result[Main] # OkResult
    /\ \E j \in ThisCall :
          /\ invocations[j].inst # NoInstance
          /\ invocations[j].type_id \in SingletonTypes
    /\ \E t \in TypeIds : snapshot[Main][t] # NoInstance

----------------------------------------------------------------------------
(* C6 *)

\* C6: in every reachable state a Prototype-scoped type has a store entry only
\* if that entry was registered by hand.
C6_PrototypeNeverStored ==
    \A t \in PrototypeTypes : components[t] # NoInstance => components[t].id \in manual

\* A Prototype was built, as a dependency of a Singleton that is in the store,
\* and has no store entry.
C6_Witness ==
    /\ Returned /\ result[Main] = OkResult
    /\ \E j, k \in ThisCall :
          /\ invocations[j].type_id \in PrototypeTypes
          /\ invocations[j].inst # NoInstance
          /\ components[invocations[j].type_id] = NoInstance
          /\ invocations[k].deps_map[invocations[j].type_id] = invocations[j].inst
          /\ components[invocations[k].type_id] = invocations[k].inst

----------------------------------------------------------------------------
(* C7 *)

\* The definition of type t declares a dependency type with neither a store
\* entry nor a definition.
HasMissingDep(t) == \E d \in DepSet(t) : ~DepInStore(d) /\ ~DepDefined(d)
\* The types whose resolve_bean frame is open on the main thread.
BeingResolved == {stack[Main][i].type_id : i \in {k \in DOMAIN stack[Main] : stack[Main][k].entered}}
\* The innermost frame's dependency loop stands at a dependency type with
\* neither a store entry nor a definition.
AtMissingDep ==
    /\ stack[Main] # <<>>
    /\ Top(Main).entered
    /\ Top(Main).dep_idx <= Len(DefMap(Top(Main).type_id).dependencies)
    /\ ~DepInStore(DefMap(Top(Main).type_id).dependencies[Top(Main).dep_idx])
    /\ ~DepDefined(DefMap(Top(Main).type_id).dependencies[Top(Main).dep_idx])

\* C7 as stated: if a definition being resolved declares a dependency type
\* with neither a store entry nor a definition, initialize() fails with
\* NotFound, the dependent's factory is not invoked and it is not stored.
C7_AsStated ==
    [][\A t \in BeingResolved :
          HasMissingDep(t) =>
              /\ result'[Main] # NoResult => result'[Main].kind = "NotFound"
              /\ InvocationsOf(t, n_calls)' = {}
              /\ components'[t] = NoInstance]_vars

\* C7, amended: when resolve_bean's dependency loop reaches a declared
\* dependency type with neither a store entry nor a definition, initialize()
\* fails with NotFound for that type; and a definition being resolved that
\* declares such a type never has its factory invoked and is never stored by
\* that call, whichever error ends the call.
C7_MissingDependency ==
    [][/\ AtMissingDep =>
             /\ result'[Main] =
                    not_found(DefMap(Top(Main).type_id).dependencies[Top(Main).dep_idx])
             /\ pc'[Main] = "idle"
       /\ \A t \in BeingResolved :
             HasMissingDep(t) =>
                 /\ result'[Main] # NoResult => result'[Main].kind # "Ok"
                 /\ InvocationsOf(t, n_calls)' = {}
                 /\ components'[t] = NoInstance]_vars

\* initialize() has returned NotFound for the undefined type X after having
\* resolved another dependency of the same call.
C7_Witness ==
    /\ Returned
    /\ result[Main] = not_found("X")
    /\ ThisCall # {}

----------------------------------------------------------------------------
(* C8 *)

\* C8: if a factory returns an error, initialize() fails with CreationFailed
\* carrying the display name of the component whose factory failed, also when
\* it was being resolved as a dependency of another component, and no instance
\* of the failing component is stored.
C8_CreationFailedNamesComponent ==
    Returned =>
        \A j \in ThisCall :
            invocations[j].inst = NoInstance =>
                /\ result[Main] = creation_failed(TypeName(invocations[j].type_id))
                /\ components[invocations[j].type_id] = NoInstance

\* A creator failed while its component was being resolved as a dependency of
\* the component initialize() had started on.
C8_Witness ==
    /\ Returned
    /\ \E j \in ThisCall :
          /\ invocations[j].inst = NoInstance
          /\ invocations[j].type_id # registry[init_idx[Main]].type_id
          /\ invocations[j].type_id \in DepSet(registry[init_idx[Main]].type_id)

----------------------------------------------------------------------------
(* Vocabulary of the configuration properties.                             *)

\* The positions of the sources that define key.
Defining(key) == {i \in DOMAIN sources : sources[i].props[key] # Absent}
\* The value of key in the source added last among those defining it.
LastAddedValue(key) ==
    IF Defining(key) = {} THEN NoValue
    ELSE StringValue(sources[CHOOSE i \in Defining(key) :
                                 \A k \in Defining(key) : k <= i].props[key])
\* No runtime override was set for key and no registered profile defines it.
OnlySourcesDefine(key) ==
    /\ overrides[key] = NoValue
    /\ \A p \in ProfileNames : profiles[p].present => profiles[p].properties[key] = Absent

----------------------------------------------------------------------------
(* C9 *)

\* C9: among configuration sources the one added last wins: for a key that no
\* runtime override and no profile supplies, get(key) returns the value of the
\* last added source that defines it, so a key defined only in an earlier
\* source is still found, and None when no source defines it.
C9_LastAddedSourceWins ==
    \A key \in Keys : OnlySourcesDefine(key) => GetResult(key) = LastAddedValue(key)

\* Two sources define k differently, j is defined only by the first, and both
\* keys have been looked up.
C9_Witness ==
    /\ Len(sources) = 2
    /\ OnlySourcesDefine("k") /\ OnlySourcesDefine("j")
    /\ sources[1].props["k"] = "1" /\ sources[2].props["k"] = "2"
    /\ sources[1].props["j"] = "1" /\ sources[2].props["j"] = Absent
    /\ cache["k"] = StringValue("2")
    /\ cache["j"] = StringValue("1")

----------------------------------------------------------------------------
(* C10 *)

\* C10: after set(key, v), get(key) returns v whatever sources and active
\* profiles define, and keeps returning v after any later add_source or
\* invalidate_cache, until set(key, _) is called again.
C10_OverrideHasHighestPrecedence ==
    \A key \in Keys : overrides[key] # NoValue => GetResult(key) = overrides[key]

----------------------------------------------------------------------------
(* C11 *)

\* C11: if an active profile defines key and key has no runtime override,
\* get(key) returns the value of the last activated profile defining it,
\* whatever the sources define and whenever they were added.
C11_ProfileOverSources ==
    \A key \in Keys :
        (overrides[key] = NoValue /\ get_property(key) # Absent)
            => GetResult(key) = StringValue(get_property(key))

----------------------------------------------------------------------------
(* C12 *)

\* A step of add_source, set or invalidate_cache.
CacheMutation ==
    \/ \E props \in PropertyMaps : AddSource(props)
    \/ \E key \in Keys, s \in Strings : Set(key, StringValue(s))
    \/ InvalidateCache

\* C12: right after invalidate_cache, add_source or set, get(key) returns
\* the value of the most recently added source or override defining key.
\* Stated for the keys no active profile defines, in the two cases where
\* "most recent" is not in question: no override was ever set for key (the
\* last added source defining it counts), and an override was set while no
\* source defines key (the override counts).
C12_CacheCoherence ==
    [][CacheMutation =>
          \A key \in Keys :
              get_property(key)' = Absent =>
                  /\ overrides'[key] = NoValue
                        => GetResult(key)' = LastAddedValue(key)'
                  /\ (overrides'[key] # NoValue /\ Defining(key)' = {})
                        => GetResult(key)' = overrides'[key]]_vars

----------------------------------------------------------------------------
(* C13 *)

----------------------------------------------------------------------------
(* C14 *)

\* The active profiles that define key.
ActiveDefining(key) ==
    {active_profiles[i] : i \in {k \in DOMAIN active_profiles :
                                    profiles[active_profiles[k]].properties[key] # Absent}}

\* C14: when a profile is activated after another (it was not active at the
\* time) and both define a key, get_property(key) returns the later one's
\* value; after the later one is deactivated it returns the earlier one's
\* value again; a key that one active profile alone defines is found there;
\* a key no active profile defines gives None.
C14_ProfilePrecedence ==
    /\ \A key \in Keys :
          /\ ActiveDefining(key) = {} => get_property(key) = Absent
          /\ \A p \in ProfileNames :
                ActiveDefining(key) = {p} => get_property(key) = profiles[p].properties[key]
    /\ (/\ profile_call.op = "activate_profile"
        /\ profile_call.res = ContextOk
        /\ ~Contains(profile_call.active_before, profile_call.name)) =>
           \A key \in Keys :
               profiles[profile_call.name].properties[key] # Absent =>
                   get_property(key) = profiles[profile_call.name].properties[key]
    /\ (/\ profile_call.op = "deactivate_profile"
        /\ Len(profile_call.active_before) = 2
        /\ profile_call.active_before[2] = profile_call.name) =>
           \A key \in Keys :
               get_property(key) =
                   profiles[profile_call.active_before[1]].properties[key]

\* p1 then p2 were activated, both define k, differently, and p2 has just been
\* deactivated.
C14_Witness ==
    /\ profile_call.op = "deactivate_profile"
    /\ profile_call.name = "p2"
    /\ profile_call.active_before = <<"p1", "p2">>
    /\ profiles["p1"].properties["k"] = "1"
    /\ profiles["p2"].properties["k"] = "2"
    /\ get_property("k") = "1"

----------------------------------------------------------------------------
(* C19 *)

\* C19: add_profile with a name that is already registered returns an error
\* and leaves the registered profile (properties, active flag) and the active
\* list as they were; the duplicate is refused there and not at activation:
\* activating a registered name succeeds.  A new name is accepted.
C19_DuplicateProfileRejected ==
    /\ (profile_call.op = "add_profile"
           /\ profile_call.profiles_before[profile_call.name].present) =>
          /\ profile_call.res = invalid_configuration(profile_call.name)
          /\ profiles = profile_call.profiles_before
          /\ active_profiles = profile_call.active_before
    /\ (profile_call.op = "add_profile"
           /\ ~profile_call.profiles_before[profile_call.name].present) =>
          /\ profile_call.res = ContextOk
          /\ profiles[profile_call.name] =
                 [present |-> TRUE, properties |-> profile_call.props, active |-> FALSE]
    /\ (profile_call.op = "activate_profile"
           /\ profile_call.profiles_before[profile_call.name].present) =>
          profile_call.res = ContextOk

\* A second profile named p1, with other properties, was offered while p1 was
\* registered and active, and was refused.
C19_Witness ==
    /\ profile_call.op = "add_profile"
    /\ profile_call.name = "p1"
    /\ profile_call.profiles_before["p1"].present
    /\ profile_call.profiles_before["p1"].active
    /\ profile_call.props # profile_call.profiles_before["p1"].properties
    /\ profile_call.res.kind = "InvalidConfiguration"
    /\ active_profiles = <<"p1">>

----------------------------------------------------------------------------
(* Vocabulary of the store properties.                                     *)

Registers == {"register_component", "register_component_by_type_id"}
\* The thread's latest store call was a get_component that has returned.
GetReturned(th) == store_call[th].op = "get_component" /\ store_call[th].phase = "returned"
\* The thread's latest store call was a registration that has returned.
RegisterReturned(th) == store_call[th].op \in Registers /\ store_call[th].phase = "returned"

----------------------------------------------------------------------------
(* C15 *)

\* C15: once register_component has stored an instance v of concrete type T,
\* get_component::<T>() finds v; a get_component::<T>() whose lookup finds the
\* store holding an instance of type T under T returns that instance; one that
\* finds no entry (the type was never registered) returns None; and a lookup
\* leaves the store unchanged.
C15_GetAfterRegister ==
    [][\A th \in Threads :
          /\ (RegisterInsert(th) /\ store_call[th].op = "register_component") =>
                get_component(store_call[th].inst.concrete)' = store_call[th].inst
          /\ GetComponentLookup(th) =>
                LET T == store_call[th].key IN
                /\ components' = components
                /\ components[T] = NoInstance => store_call'[th].ret = NoInstance
                /\ (components[T] # NoInstance /\ components[T].concrete = T)
                      => store_call'[th].ret = components[T]]_vars

\* One thread registered an instance with register_component, the other got
\* it from get_component, and asked for the unregistered type before or after.
C15_Witness ==
    \E th, o \in Threads :
        /\ GetReturned(th)
        /\ RegisterReturned(o)
        /\ store_call[o].op = "register_component"
        /\ store_call[th].ret = store_call[o].inst
        /\ store_call[th].ret # NoInstance
        /\ \E U \in StoreTypes : components[U] = NoInstance

----------------------------------------------------------------------------
(* C16 *)

\* C16: register_component stores the instance under the identity of its own
\* concrete type and overwrites what the key held: after the insert the key
\* holds the new instance, get_component returns it, the number of entries
\* grows by one only if the key was empty, and all other entries are as they
\* were.
C16_RegisterOverwrites ==
    [][\A th \in Threads :
          /\ RegisterComponentCall(th, "A") => store_call'[th].key = "A"
          /\ RegisterComponentCall(th, "B") => store_call'[th].key = "B"
          /\ RegisterInsert(th) =>
                LET key == store_call[th].key
                    inst == store_call[th].inst
                IN
                /\ components'[key] = inst
                /\ \A other \in TypeIds \ {key} : components'[other] = components[other]
                /\ StoreSize' = StoreSize + (IF components[key] = NoInstance THEN 1 ELSE 0)
                /\ store_call[th].op = "register_component" =>
                      /\ key = inst.concrete
                      /\ get_component(key)' = inst]_vars

\* Two instances of type A were registered one after the other with
\* register_component, next to an entry for B: the store holds the second.
C16_Witness ==
    \E th, o \in Threads :
        /\ th # o
        /\ RegisterReturned(th) /\ RegisterReturned(o)
        /\ store_call[th].op = "register_component"
        /\ store_call[o].op = "register_component"
        /\ store_call[th].key = "A" /\ store_call[o].key = "A"
        /\ store_call[th].overwritten
        /\ components["A"] = store_call[o].inst
        /\ components["B"] # NoInstance
        /\ StoreSize = 2

----------------------------------------------------------------------------
(* C17 *)

\* C17: a get_component::<T>() whose lookup finds, under T, an instance of
\* another concrete type returns None, and leaves the store unchanged.
C17_DowncastMismatchIsAbsence ==
    [][\A th \in Threads :
          GetComponentLookup(th) =>
              LET T == store_call[th].key IN
              /\ components' = components
              /\ (components[T] # NoInstance /\ components[T].concrete # T)
                    => store_call'[th].ret = NoInstance]_vars

\* register_component_by_type_id stored an instance of type B under A, and a
\* get_component::<A>() found it and returned None.
C17_Witness ==
    \E th \in Threads :
        /\ GetReturned(th)
        /\ store_call[th].key = "A"
        /\ store_call[th].seen = {components["A"]}
        /\ components["A"] # NoInstance
        /\ components["A"].concrete = "B"
        /\ store_call[th].ret = NoInstance

----------------------------------------------------------------------------
(* C18 *)

\* C18: with the two threads calling the store at will, a get_component
\* returns (after the downcast) one of the values its key held between the
\* start of the call and its return: what it held at the start (possibly
\* nothing) or an instance registered meanwhile; so a get that overlaps no
\* registration of its key returns what the key held.  And a registration
\* that has returned is what its key holds until another registration of the
\* key overwrites it.
C18_ConcurrentStore ==
    \A th \in Threads :
        /\ GetReturned(th) =>
              \E v \in store_call[th].seen :
                  store_call[th].ret = Downcast(v, store_call[th].key)
        /\ (RegisterReturned(th) /\ ~store_call[th].overwritten) =>
              components[store_call[th].key] = store_call[th].inst

\* A get_component::<A>() overlapped a registration of A: it started on an
\* empty key and returned the instance registered meanwhile.
C18_Witness ==
    \E th, o \in Threads :
        /\ GetReturned(th)
        /\ RegisterReturned(o)
        /\ store_call[th].key = "A" /\ store_call[o].key = "A"
        /\ store_call[th].seen = {NoInstance, store_call[o].inst}
        /\ store_call[th].ret = store_call[o].inst

----------------------------------------------------------------------------
(* C20 *)

PlainAccessors == {"get_string", "get_integer", "get_float", "get_boolean"}
DefaultAccessors == {"get_string_or_default", "get_integer_or_default",
                     "get_boolean_or_default"}

\* The type an accessor asks for.
RequestedType(op) ==
    CASE op \in {"get_string", "get_string_or_default"} -> "string"
      [] op \in {"get_integer", "get_integer_or_default"} -> "integer"
      [] op = "get_float" -> "float"
      [] op \in {"get_boolean", "get_boolean_or_default"} -> "boolean"

\* The coercion rules, as a table: the values each requested type accepts.
Coercible(v, type) ==
    CASE type = "string" -> v.tag \in {"String", "Integer", "Float", "Boolean"}
      [] type = "integer" ->
            v.tag = "Integer" \/ (v.tag = "String" /\ v.val \in {"0", "1", "2"})
      [] type = "float" ->
            v.tag \in {"Float", "Integer"}
            \/ (v.tag = "String" /\ v.val \in {"0", "1", "2", "1.5"})
      [] type = "boolean" ->
            v.tag \in {"Boolean", "Integer"}
            \/ (v.tag = "String" /\ v.val \in {"1", "0", "TRUE", "no"})

\* What the coercion to the requested type makes of a value.
Coerced(v, type) ==
    CASE type = "string" -> as_string(v)
      [] type = "integer" -> as_integer(v)
      [] type = "float" -> as_float(v)
      [] type = "boolean" -> as_boolean(v)

\* C20: a typed accessor returns ConfigurationNotFound for its key exactly
\* when get(key) returned nothing or a value that cannot be coerced to the
\* requested type, and the coerced value otherwise; an *_or_default accessor
\* returns the caller's default in exactly those cases and the coerced value
\* otherwise, and never an error.
C20_TypedAccessors ==
    typed_result # NoCall =>
        LET r == typed_result
            type == RequestedType(r.op)
            fails == r.got = NoValue \/ ~Coercible(r.got, type)
        IN
        /\ r.op \in PlainAccessors =>
              /\ fails <=> r.res = configuration_not_found(r.key)
              /\ ~fails => r.res = Ok(Coerced(r.got, type))
        /\ r.op \in DefaultAccessors =>
              /\ "kind" \notin DOMAIN r.res
              /\ r.res = IF fails THEN r.default ELSE Coerced(r.got, type)

\* get_integer_or_default found a string that is no integer and returned the
\* default.
C20_Witness ==
    /\ typed_result # NoCall
    /\ typed_result.op = "get_integer_or_default"
    /\ typed_result.got = StringValue("1.5")
    /\ typed_result.res = SomeInteger(42)

----------------------------------------------------------------------------
(* C29 *)

\* The creator calls of the current call whose definition declares p.
DependentsCreated(p) == {j \in ThisCall : p \in DepSet(invocations[j].type_id)}

\* In a call that returned Ok, every creator call of a definition declaring
\* Prototype p was handed the instance of a creator call of p made for it and
\* for no other, and p's creator ran once more for p's own definition.
PerResolution(p) ==
    LET made == InvocationsOf(p, n_calls)
        users == DependentsCreated(p)
    IN
    /\ \A j \in users :
          \E k \in made :
              /\ k < j
              /\ invocations[k].inst # NoInstance
              /\ invocations[j].deps_map[p] = invocations[k].inst
    /\ \A j1, j2 \in users :
          j1 # j2 => invocations[j1].deps_map[p] # invocations[j2].deps_map[p]
    /\ Cardinality(made) = Cardinality(users) + 1

\* C29 as stated: in a call of initialize() that returns Ok, every dependent
\* declaring Prototype P gets an instance from its own invocation of P's
\* factory, distinct from every other dependent's, and P's factory runs once
\* more for P's own definition.
C29_AsStated ==
    (Returned /\ result[Main] = OkResult) =>
        \A p \in PrototypeTypes : PerResolution(p)

\* C29, amended: the same, for a Prototype P whose type had no store entry
\* when the call began (an instance registered by hand under P's type is handed
\* to every dependent and P's factory is not invoked).
C29_PrototypePerResolution ==
    (Returned /\ result[Main] = OkResult) =>
        \A p \in PrototypeTypes :
            IF snapshot[Main][p] = NoInstance
            THEN PerResolution(p)
            ELSE /\ InvocationsOf(p, n_calls) = {}
                 /\ \A j \in DependentsCreated(p) :
                       invocations[j].deps_map[p] = snapshot[Main][p]

\* An Ok call in which two dependents of a Prototype were built: its creator
\* ran three times.
C29_Witness ==
    /\ Returned /\ result[Main] = OkResult
    /\ \E p \in PrototypeTypes :
          /\ snapshot[Main][p] = NoInstance
          /\ Cardinality(DependentsCreated(p)) = 2
          /\ Cardinality(InvocationsOf(p, n_calls)) = 3

----------------------------------------------------------------------------
(* C30 *)

\* C30: every CircularDependency error carries the display name of a type
\* that lies on a dependency cycle of the registry.
C30_CycleErrorNamesCycleType ==
    \A i \in DOMAIN errors :
        errors[i].err.kind = "CircularDependency" =>
            \E t \in CycleTypes : errors[i].err.msg = TypeName(t)

----------------------------------------------------------------------------
(* EventPublisher (verdure-context/src/event.rs): subscribe, publish,      *)
(* publish_with_context, listener_count, clear_all_listeners.              *)

\* Number of subscribe / subscribe_context_aware calls.
MaxListeners == 3

\* What a listener is handed besides the event: the ApplicationContext, or
\* nothing.
TheContext == "ApplicationContext"
NoContext == "none"

\* Arc::new(TypedEventListener / TypedContextAwareEventListener): the
\* allocation a subscribe call makes. Identities count the subscribe calls.
NewListener == Cardinality(publisher_log.subscribed) + 1

\* One AnyEventListener::handle_event or
\* AnyContextAwareEventListener::handle_context_event call: the downcast of
\* the event succeeds (the Vec is keyed by the event's TypeId) and the
\* listener's on_event / on_context_event runs.
ListenerCall(id, kind, e, context) ==
    [listener |-> id, kind |-> kind, event |-> e, context |-> context]

\* Mutant of PlainCalls: every plain listener is invoked, whatever the type
\* it subscribed to.
RECURSIVE PlainCallsOfAllTypes(_, _)
PlainCallsOfAllTypes(e, types) ==
    IF types = {} THEN <<>>
    ELSE LET t == CHOOSE x \in types : TRUE
             ls == event_publisher.listeners[t]
         IN [i \in 1..Len(ls) |-> ListenerCall(ls[i], "plain", e, NoContext)]
            \o PlainCallsOfAllTypes(e, types \ {t})

PlainCallsUnfiltered(e) == PlainCallsOfAllTypes(e, EventTypes)

\* if let Some(listeners) = self.listeners.get(&type_id) { for listener in
\* listeners.iter() { listener.handle_event(event); } }
PlainCalls(e) ==
    LET ls == event_publisher.listeners[e]
    IN [i \in 1..Len(ls) |-> ListenerCall(ls[i], "plain", e, NoContext)]

\* Mutant of ContextAwareCalls: publish_with_context stops after the plain
\* listeners.
ContextAwareCallsNone(e) == <<>>

\* if let Some(listeners) = self.context_aware_listeners.get(&type_id) { for
\* listener in listeners.iter() { listener.handle_context_event(event, context) } }
ContextAwareCalls(e) ==
    LET ls == event_publisher.context_aware_listeners[e]
    IN [i \in 1..Len(ls) |-> ListenerCall(ls[i], "context_aware", e, TheContext)]

\* publish_with_context's dispatch: the plain listeners, then the
\* context-aware ones.
PublishWithContextCalls(e) == PlainCalls(e) \o ContextAwareCalls(e)

\* listener_count::<E>(): the length of the plain Vec, 0 without an entry.
listener_count(e) == Len(event_publisher.listeners[e])

\* EventPublisher::subscribe::<E, L>(listener).
Subscribe(e) ==
    /\ Cardinality(publisher_log.subscribed) < MaxListeners
    /\ event_publisher' =
         [event_publisher EXCEPT !.listeners[e] = Append(@, NewListener)]
    /\ publisher_log' =
         [publisher_log EXCEPT
            !.subscribed = @ \cup {[id |-> NewListener, event |-> e, kind |-> "plain"]},
            !.op = "subscribe"]
    /\ UNCHANGED <<container_vars, config_vars, call_vars, context_call, file_call>>

\* EventPublisher::subscribe_context_aware::<E, L>(listener).
SubscribeContextAware(e) ==
    /\ Cardinality(publisher_log.subscribed) < MaxListeners
    /\ event_publisher' =
         [event_publisher EXCEPT !.context_aware_listeners[e] = Append(@, NewListener)]
    /\ publisher_log' =
         [publisher_log EXCEPT
            !.subscribed = @ \cup {[id |-> NewListener, event |-> e,
                                    kind |-> "context_aware"]},
            !.op = "subscribe_context_aware"]
    /\ UNCHANGED <<container_vars, config_vars, call_vars, context_call, file_call>>

\* EventPublisher::publish::<E>(event).
Publish(e) ==
    /\ publisher_log' = [publisher_log EXCEPT !.calls = PlainCalls(e), !.op = "publish"]
    /\ UNCHANGED <<container_vars, config_vars, call_vars, event_publisher,
                   context_call, file_call>>

\* EventPublisher::publish_with_context::<E>(event, context).
PublishWithContext(e) ==
    /\ publisher_log' = [publisher_log EXCEPT !.calls = PublishWithContextCalls(e),
                                              !.op = "publish_with_context"]
    /\ UNCHANGED <<container_vars, config_vars, call_vars, event_publisher,
                   context_call, file_call>>

\* EventPublisher::clear_all_listeners(): self.listeners.clear().
ClearAllListeners ==
    /\ event_publisher' =
         [event_publisher EXCEPT !.listeners = [e \in EventTypes |-> <<>>]]
    /\ publisher_log' =
         [publisher_log EXCEPT
            !.cleared = {l.id : l \in publisher_log.subscribed},
            !.op = "clear_all_listeners"]
    /\ UNCHANGED <<container_vars, config_vars, call_vars, context_call, file_call>>

NextEvents ==
    \/ \E e \in EventTypes : Subscribe(e)
    \/ \E e \in EventTypes : SubscribeContextAware(e)
    \/ \E e \in EventTypes : Publish(e)
    \/ \E e \in EventTypes : PublishWithContext(e)
    \/ ClearAllListeners

SpecEvents == InitConfig /\ [][NextEvents]_vars

----------------------------------------------------------------------------
(* Vocabulary of the event claims.                                         *)

\* The listeners of one kind subscribed for event type e and not cleared since.
Registered(e, kind) ==
    {l.id : l \in {s \in publisher_log.subscribed :
                     /\ s.event = e
                     /\ s.kind = kind
                     /\ s.id \notin publisher_log.cleared}}

\* The positions of a call sequence at which listener id is invoked.
CallsTo(calls, id) == {i \in DOMAIN calls : calls[i].listener = id}

\* The call sequence invokes listeners in the order they subscribed.
InSubscriptionOrder(calls) ==
    \A i, j \in DOMAIN calls : i < j => calls[i].listener < calls[j].listener

\* C21: publish(event) invokes, in subscription order, every plain listener
\* registered for the event's exact type, each exactly once, and no listener
\* registered for another type or of the context-aware kind; with no listener
\* registered for the type it invokes nothing.
C21_PublishPlainListeners ==
    [][\A e \in EventTypes : Publish(e) =>
         LET calls == publisher_log'.calls
         IN /\ \A id \in Registered(e, "plain") : Cardinality(CallsTo(calls, id)) = 1
            /\ \A i \in DOMAIN calls :
                 /\ calls[i].listener \in Registered(e, "plain")
                 /\ calls[i].event = e
                 /\ calls[i].kind = "plain"
            /\ InSubscriptionOrder(calls)
            /\ Registered(e, "plain") = {} => calls = <<>>]_vars

\* A publish has just invoked two plain listeners of its type while a plain
\* listener of the other type stayed uncalled.
C21_Witness ==
    /\ publisher_log.op = "publish"
    /\ Len(publisher_log.calls) = 2
    /\ \E e \in EventTypes :
         /\ publisher_log.calls[1].event = e
         /\ \E other \in EventTypes \ {e} : Registered(other, "plain") # {}

\* C22: with plain and context-aware listeners registered for the same type,
\* publish_with_context invokes every listener of both groups exactly once,
\* the context-aware ones with the context.
C22_PublishWithContextBothGroups ==
    [][\A e \in EventTypes : PublishWithContext(e) =>
         LET calls == publisher_log'.calls
         IN /\ \A id \in Registered(e, "plain") \cup Registered(e, "context_aware") :
                 Cardinality(CallsTo(calls, id)) = 1
            /\ \A i \in DOMAIN calls :
                 /\ Cardinality(CallsTo(calls, calls[i].listener)) = 1
                 /\ calls[i].event = e
                 /\ calls[i].kind = "context_aware" => calls[i].context = TheContext
            /\ \A id \in Registered(e, "context_aware") :
                 \A i \in CallsTo(calls, id) :
                     calls[i].kind = "context_aware" /\ calls[i].context = TheContext
            /\ \A id \in Registered(e, "plain") :
                 \A i \in CallsTo(calls, id) : calls[i].kind = "plain"]_vars

\* A publish_with_context has just invoked a plain and a context-aware
\* listener of the same type.
C22_Witness ==
    /\ publisher_log.op = "publish_with_context"
    /\ \E i, j \in DOMAIN publisher_log.calls :
         /\ publisher_log.calls[i].kind = "plain"
         /\ publisher_log.calls[j].kind = "context_aware"
         /\ publisher_log.calls[i].event = publisher_log.calls[j].event
         /\ publisher_log.calls[j].context = TheContext

\* C24: after clear_all_listeners, publish and publish_with_context invoke no
\* listener subscribed before the clearing, plain or context-aware, and
\* listener_count is 0 for every event type.
C24_ClearAllListeners ==
    [][/\ ClearAllListeners => \A e \in EventTypes : listener_count(e)' = 0
       /\ \A e \in EventTypes : (Publish(e) \/ PublishWithContext(e)) =>
            \A i \in DOMAIN publisher_log'.calls :
                publisher_log'.calls[i].listener \notin publisher_log.cleared]_vars

----------------------------------------------------------------------------
(* ApplicationContext::initialize (verdure-context/src/context.rs).  The   *)
(* inventory of ConfigFactory is empty in the configurations explored, so  *)
(* initialize_early registers the ConfigManager and nothing else.          *)

\* TypeId::of::<ConfigManager>(): a type without a ComponentDefinition.
ConfigManagerType == "X"

\* self.config_manager.clone(): the one Arc<ConfigManager> allocated by
\* ApplicationContext::new(), before the container allocates anything.
ConfigManagerInstance == [id |-> 0, concrete |-> ConfigManagerType]

\* ContextInitializingEvent / ContextInitializedEvent as dispatched; the count
\* is config_sources_count.
ContextEvent(type) == Event(type, "none", NoType, Len(sources))

\* ContextError::initialization_failed("IoC container initialization failed: {e}").
initialization_failed(e) == [kind |-> "InitializationFailed", msg |-> e.kind]

\* initialize_early(): self.container.register_component(self.config_manager.clone()).
InitializeEarly == [components EXCEPT ![ConfigManagerType] = ConfigManagerInstance]

\* Mutant of EventsAfterContainer: the error of the container is not looked
\* at before ContextInitializedEvent is published.
EventsAfterContainerAlways(res) == Append(events, ContextEvent("ContextInitialized"))

\* Mutant of EventsAfterContainer: initialize() returns without publishing
\* ContextInitializedEvent.
EventsAfterContainerSilent(res) == events

\* initialize() after self.container.initialize(): `?` returns on Err, and
\* ContextInitializedEvent is published on Ok.
EventsAfterContainer(res) ==
    IF res = OkResult THEN Append(events, ContextEvent("ContextInitialized")) ELSE events

ContextIdle == context_call.phase = "returned"
ContextInContainer == context_call.op = "initialize" /\ context_call.phase = "container"

\* initialize(), up to the call of self.container.initialize():
\* initialize_early, then publish ContextInitializingEvent.
ContextInitializeBegin ==
    /\ ContextIdle
    /\ pc[Main] = "idle"
    /\ n_calls < MaxCalls
    /\ components' = InitializeEarly
    /\ events' = Append(events, ContextEvent("ContextInitializing"))
    /\ publisher_log' =
         [publisher_log EXCEPT !.calls = PublishWithContextCalls("ContextInitializing"),
                               !.op = "publish_with_context"]
    /\ context_call' = [op |-> "initialize", phase |-> "container", call |-> n_calls + 1,
                        first |-> Len(events) + 1, result |-> NoResult]
    /\ UNCHANGED <<registry, initializing, stats, pc, init_idx, stack, result, snapshot,
                   next_inst, invocations, manual, n_calls, errors>>
    /\ UNCHANGED <<config_vars, call_vars, event_publisher, file_call>>

\* initialize(): self.container.initialize() begins.
ContextContainerInitialize ==
    /\ ContextInContainer
    /\ n_calls < context_call.call
    /\ Initialize(Main)

\* initialize(), from the return of self.container.initialize() on.
ContextInitializeEnd ==
    /\ ContextInContainer
    /\ n_calls = context_call.call
    /\ pc[Main] = "idle"
    /\ result[Main] # NoResult
    /\ events' = EventsAfterContainer(result[Main])
    /\ publisher_log' =
         IF result[Main] = OkResult
         THEN [publisher_log EXCEPT !.calls = PublishWithContextCalls("ContextInitialized"),
                                    !.op = "publish_with_context"]
         ELSE publisher_log
    /\ context_call' =
         [context_call EXCEPT
            !.phase = "returned",
            !.result = IF result[Main] = OkResult THEN OkResult
                       ELSE initialization_failed(result[Main])]
    /\ UNCHANGED <<registry, components, initializing, stats, pc, init_idx, stack, result,
                   snapshot, next_inst, invocations, manual, n_calls, errors>>
    /\ UNCHANGED <<config_vars, call_vars, event_publisher, file_call>>

NextContext ==
    \/ ContextInitializeBegin
    \/ ContextContainerInitialize
    \/ InitializeLoop(Main)
    \/ ResolveBeanEnter(Main)
    \/ ResolveBeanDependency(Main)
    \/ ResolveBeanCreate(Main)
    \/ ContextInitializeEnd

SpecContext == Init /\ [][NextContext]_vars

----------------------------------------------------------------------------
(* Vocabulary of the context initialization claim.                         *)

\* ApplicationContext::initialize() has returned Ok(()).
ContextReturnedOk ==
    /\ context_call.op = "initialize"
    /\ context_call.phase = "returned"
    /\ context_call.result = OkResult

\* The events dispatched during the latest ApplicationContext::initialize().
ContextCallEvents == SubSeq(events, context_call.first, Len(events))

\* The positions of a sequence of events that hold an event of the given type.
EventsOfType(seq, type) == {i \in DOMAIN seq : seq[i].type = type}

\* The positions of a sequence of events that announce the creation of t.
CreatedEventsOf(seq, t) ==
    {i \in EventsOfType(seq, "ComponentCreated") : seq[i].component_type_id = t}

\* The creator calls of the current initialize() that returned an instance of t.
CreatedInThisCall(t) ==
    {j \in ThisCall : invocations[j].type_id = t /\ invocations[j].inst # NoInstance}

\* C23: a successful ApplicationContext::initialize() dispatches
\* ContextInitializing, InitializationStarted, one ComponentCreated per
\* component created (a dependency's before its dependent's),
\* InitializationCompleted, ContextInitialized, in this order, and each of
\* the four bracketing events exactly once.
C23_InitializeEventOrder ==
    ContextReturnedOk =>
        LET seq == ContextCallEvents
            n == Len(seq)
        IN /\ n >= 4
           /\ seq[1].type = "ContextInitializing"
           /\ seq[2].type = "InitializationStarted"
           /\ \A i \in 3..(n - 2) : seq[i].type = "ComponentCreated"
           /\ seq[n - 1].type = "InitializationCompleted"
           /\ seq[n].type = "ContextInitialized"
           /\ \A type \in {"ContextInitializing", "InitializationStarted",
                           "InitializationCompleted", "ContextInitialized"} :
                Cardinality(EventsOfType(seq, type)) = 1
           /\ \A t \in TypeIds :
                Cardinality(CreatedEventsOf(seq, t)) = Cardinality(CreatedInThisCall(t))
           /\ \A t \in TypeIds : \A i \in CreatedEventsOf(seq, t) :
                \A d \in DepSet(t) :
                    CreatedInThisCall(d) # {} =>
                        \E k \in CreatedEventsOf(seq, d) : k < i

\* A successful initialize() that created a component and a dependency of
\* it, so that at least six events were dispatched.
C23_Witness ==
    /\ ContextReturnedOk
    /\ \E t \in TypeIds : \E d \in DepSet(t) :
         /\ CreatedInThisCall(t) # {}
         /\ CreatedInThisCall(d) # {}
    /\ Len(ContextCallEvents) >= 6

----------------------------------------------------------------------------
(* Sources of several kinds on one ConfigManager: the Environment source   *)
(* and the file-backed sources.                                            *)

\* add_source(ConfigSource::Environment).
AddEnvironmentSource ==
    /\ Len(sources) < MaxSources
    /\ sources' = Append(sources, EnvironmentSource)
    /\ cache' = CacheAfterAddSource
    /\ UNCHANGED <<profiles, active_profiles, overrides>>
    /\ UNCHANGED <<container_vars, call_vars, event_vars, file_call>>

\* load_from_toml_file / load_from_yaml_file / load_from_properties_file /
\* load_from_config_file: add_source of the file-backed variant.
LoadFromFile(kind, props) ==
    /\ Len(sources) < MaxSources
    /\ sources' = Append(sources, FileSource(kind, props))
    /\ cache' = CacheAfterAddSource
    /\ UNCHANGED <<profiles, active_profiles, overrides>>
    /\ UNCHANGED <<container_vars, call_vars, event_vars, file_call>>

NextSources ==
    \/ AddEnvironmentSource
    \/ \E kind \in FileKinds, props \in PropertyMaps : LoadFromFile(kind, props)
    \/ \E key \in Keys : Get(key)

SpecSources == InitConfig /\ [][NextSources]_vars

\* C25: when an Environment source supplies a value for a key and a
\* file-backed source supplies one too, get returns the Environment value,
\* whichever of the two sources was added first.
C25_EnvironmentOverFiles ==
    [][\A key \in Keys :
         (/\ Get(key)
          /\ EnvVar(EnvKey(key)) # Absent
          /\ \E i \in DOMAIN sources : sources[i].kind = "Environment"
          /\ \E i \in DOMAIN sources :
               sources[i].kind \in FileKinds /\ sources[i].props[key] # Absent)
         => cache'[key] = StringValue(EnvVar(EnvKey(key)))]_vars

----------------------------------------------------------------------------
(* Properties files (verdure-context/src/config.rs): parse_properties and  *)
(* process_properties_value.  A text is a sequence of characters.          *)

\* Length of the texts handed to the Properties parser.
MaxLen == 4

Backslash == "\\"
Newline == "\n"
Tab == "\t"
CarriageReturn == "\r"

\* The characters of the file contents explored, and of the values explored.
LineChars == {"a", "n", "=", ":", "#", "!", " ", Newline, Backslash}
EscapeChars == {Backslash, "n", "t", "r", "a"}

TextsOver(chars) == UNION {[1..n -> chars] : n \in 0..MaxLen}
Texts == TextsOver(LineChars) \cup TextsOver(EscapeChars)

\* str::replace(from, to): every non-overlapping match, found left to right.
RECURSIVE StrReplace(_, _, _)
StrReplace(s, from, to) ==
    IF Len(s) < Len(from) THEN s
    ELSE IF SubSeq(s, 1, Len(from)) = from
         THEN to \o StrReplace(SubSeq(s, Len(from) + 1, Len(s)), from, to)
         ELSE <<Head(s)>> \o StrReplace(Tail(s), from, to)

\* ConfigManager::process_properties_value: four replace calls, one after
\* the other, each over the whole result of the one before.
process_properties_value(value) ==
    StrReplace(
        StrReplace(
            StrReplace(
                StrReplace(value, <<Backslash, "n">>, <<Newline>>),
                <<Backslash, "t">>, <<Tab>>),
            <<Backslash, "r">>, <<CarriageReturn>>),
        <<Backslash, Backslash>>, <<Backslash>>)

\* str::lines(): split at line feeds; a final line feed opens no line.
RECURSIVE SplitLines(_, _)
SplitLines(s, line) ==
    IF s = <<>> THEN (IF line = <<>> THEN <<>> ELSE <<line>>)
    ELSE IF Head(s) = Newline
         THEN <<line>> \o SplitLines(Tail(s), <<>>)
         ELSE SplitLines(Tail(s), Append(line, Head(s)))

Lines(content) == SplitLines(content, <<>>)

IsWhitespace(c) == c \in {" ", Tab, Newline, CarriageReturn}

\* str::trim().
RECURSIVE TrimStart(_)
TrimStart(s) ==
    IF s # <<>> /\ IsWhitespace(Head(s)) THEN TrimStart(Tail(s)) ELSE s

RECURSIVE TrimEnd(_)
TrimEnd(s) ==
    IF s # <<>> /\ IsWhitespace(s[Len(s)]) THEN TrimEnd(SubSeq(s, 1, Len(s) - 1)) ELSE s

Trim(s) == TrimEnd(TrimStart(s))

\* str::find(char): the first position of c, 0 for None.
Find(s, c) ==
    IF \E i \in DOMAIN s : s[i] = c
    THEN CHOOSE i \in DOMAIN s : s[i] = c /\ \A j \in 1..(i - 1) : s[j] # c
    ELSE 0

\* parse_properties: line.find('=').or_else(|| line.find(':')).
SeparatorPos(line) == IF Find(line, "=") # 0 THEN Find(line, "=") ELSE Find(line, ":")

\* parse_properties: the lines `continue` skips.
Skipped(line) == line = <<>> \/ Head(line) = "#" \/ Head(line) = "!"

\* HashMap::insert on a map kept as a set of <<key, value>> pairs.
MapInsert(map, key, value) == {p \in map : p[1] # key} \cup {<<key, value>>}

\* parse_properties: the body of the loop for one line.
ParseLine(map, raw) ==
    LET line == Trim(raw)
        pos == SeparatorPos(line)
    IN IF Skipped(line) \/ pos = 0 THEN map
       ELSE MapInsert(map,
                      Trim(SubSeq(line, 1, pos - 1)),
                      process_properties_value(Trim(SubSeq(line, pos + 1, Len(line)))))

RECURSIVE ParseLines(_, _, _)
ParseLines(map, lines, i) ==
    IF i > Len(lines) THEN map ELSE ParseLines(ParseLine(map, lines[i]), lines, i + 1)

\* ConfigManager::parse_properties.
parse_properties(content) == ParseLines({}, Lines(content), 1)

\* A text has been chosen and no parsing function applied to it.
FileInput(text) == [op |-> "none", text |-> text, value |-> <<>>, map |-> {}]

\* A call of process_properties_value on the chosen text.
ProcessPropertiesValue ==
    /\ file_call.op = "none"
    /\ file_call' = [file_call EXCEPT !.op = "process_properties_value",
                                      !.value = process_properties_value(file_call.text)]
    /\ UNCHANGED <<container_vars, config_vars, call_vars, event_vars>>

\* A call of parse_properties on the chosen text.
ParseProperties ==
    /\ file_call.op = "none"
    /\ file_call' = [file_call EXCEPT !.op = "parse_properties",
                                      !.map = parse_properties(file_call.text)]
    /\ UNCHANGED <<container_vars, config_vars, call_vars, event_vars>>

InitProperties ==
    /\ registry = <<>>
    /\ ContainerNew
    /\ ConfigNew
    /\ CallsNew
    /\ \E text \in Texts : file_call = FileInput(text)

NextProperties ==
    \/ ProcessPropertiesValue
    \/ ParseProperties

SpecProperties == InitProperties /\ [][NextProperties]_vars

----------------------------------------------------------------------------
(* Vocabulary of the Properties claims.                                    *)

\* The position of the first '=' or ':' of a line, whichever comes first;
\* 0 when the line has neither.
FirstSeparator(line) ==
    LET eq == Find(line, "=")
        colon == Find(line, ":")
    IN IF eq = 0 THEN colon
       ELSE IF colon = 0 THEN eq
       ELSE IF eq < colon THEN eq ELSE colon

\* The entries a content yields when every line that is neither blank nor a
\* comment is split at its first separator, later lines replacing earlier
\* ones with the same key.
RECURSIVE SplitAtFirstSeparator(_, _, _)
SplitAtFirstSeparator(map, lines, i) ==
    IF i > Len(lines) THEN map
    ELSE LET line == Trim(lines[i])
             pos == FirstSeparator(line)
         IN SplitAtFirstSeparator(
                IF Skipped(line) \/ pos = 0 THEN map
                ELSE MapInsert(map,
                               Trim(SubSeq(line, 1, pos - 1)),
                               process_properties_value(
                                   Trim(SubSeq(line, pos + 1, Len(line))))),
                lines, i + 1)

\* A text unescaped in one pass from left to right.
RECURSIVE UnescapedOnce(_)
UnescapedOnce(s) ==
    IF s = <<>> THEN <<>>
    ELSE IF Head(s) = Backslash /\ Len(s) >= 2 /\ s[2] \in {"n", "t", "r", Backslash}
         THEN <<CASE s[2] = "n" -> Newline
                  [] s[2] = "t" -> Tab
                  [] s[2] = "r" -> CarriageReturn
                  [] OTHER -> Backslash>> \o UnescapedOnce(SubSeq(s, 3, Len(s)))
         ELSE <<Head(s)>> \o UnescapedOnce(Tail(s))

\* C27: parse_properties skips blank lines and lines beginning with '#' or
\* '!' and splits every other line at the first '=' or ':' on it, whichever
\* comes first, into a trimmed key and a trimmed value.
C27_SplitAtFirstSeparator ==
    file_call.op = "parse_properties" =>
        file_call.map = SplitAtFirstSeparator({}, Lines(file_call.text), 1)

\* C28: process_properties_value unescapes backslash-n, backslash-t,
\* backslash-r and backslash-backslash reading the value once from left to
\* right.
C28_UnescapedLeftToRight ==
    file_call.op = "process_properties_value" =>
        file_call.value = UnescapedOnce(file_call.text)

----------------------------------------------------------------------------
(* Flattening of parsed YAML and TOML values (config.rs):                  *)
(* yaml_value_to_config_map, yaml_value_to_string,                         *)
(* toml_value_to_config_map, toml_value_to_string.  One representation     *)
(* serves serde_yaml::Value and toml::Value.                               *)

\* Number of entries of the root mapping.
MaxEntries == 2

\* Value::String, Value::Number / Integer, Value::Bool / Boolean,
\* Value::Null, Value::Sequence / Array, Value::Mapping / Table.
StringNode(s) == [tag |-> "String", str |-> s]
NumberNode(i) == [tag |-> "Number", int |-> i]
BoolNode(b) == [tag |-> "Bool", bool |-> b]
NullNode == [tag |-> "Null"]
SequenceNode(items) == [tag |-> "Sequence", items |-> items]
MappingNode(entries) == [tag |-> "Mapping", entries |-> entries]

\* One (key, value) pair of a mapping.  A YAML key is a value itself.
Entry(key, val) == [key |-> key, val |-> val]

\* The values without a mapping in them.
LeafNodes ==
    {StringNode("x"), NumberNode(1), NullNode,
     SequenceNode(<<StringNode("x"), BoolNode(TRUE)>>)}

\* The keys of the root mapping and of a nested mapping.
RootKeys == {StringNode("a"), StringNode("a.b"), NumberNode(1)}
NestedKeys == <<StringNode("b"), StringNode("c")>>

\* The mappings nested in the root: any part of NestedKeys, in that order,
\* with leaves as values.
NestedMappings ==
    {MappingNode(<<>>)}
    \cup {MappingNode(<<Entry(NestedKeys[i], v)>>) : i \in DOMAIN NestedKeys, v \in LeafNodes}
    \cup {MappingNode(<<Entry(NestedKeys[1], v), Entry(NestedKeys[2], w)>>) :
            v \in LeafNodes, w \in LeafNodes}

\* The values handed to the flattening functions: a leaf, or a mapping of at
\* most MaxEntries entries with distinct keys, in any order.
Trees ==
    LeafNodes
    \cup {MappingNode(entries) :
            entries \in {s \in UNION {[1..n -> [key : RootKeys,
                                                val : LeafNodes \cup NestedMappings]] :
                                        n \in 0..MaxEntries} :
                           \A i, j \in DOMAIN s : i # j => s[i].key # s[j].key}}

\* key.as_str(): Some for a string key only.
KeyIsStr(key) == key.tag = "String"

\* Mutant of FullKey: the prefix is dropped.
FullKeyUnprefixed(prefix, key_str) == key_str

\* if prefix.is_empty() { key } else { format!("{}.{}", prefix, key) }
FullKey(prefix, key_str) == IF prefix = "" THEN key_str ELSE prefix \o "." \o key_str

\* Iterator::collect::<Vec<_>>().join(",").
RECURSIVE Join(_, _)
Join(strings, i) ==
    IF i > Len(strings) THEN ""
    ELSE IF i = Len(strings) THEN strings[i]
    ELSE strings[i] \o "," \o Join(strings, i + 1)

\* ConfigManager::yaml_value_to_string, for the values without a mapping.
RECURSIVE yaml_value_to_string(_)
yaml_value_to_string(value) ==
    CASE value.tag = "String" -> value.str
      [] value.tag = "Number" -> IntegerToString(value.int)
      [] value.tag = "Bool" -> BooleanToString(value.bool)
      [] value.tag = "Sequence" ->
            Join([i \in DOMAIN value.items |-> yaml_value_to_string(value.items[i])], 1)
      [] value.tag = "Null" -> ""

\* ConfigManager::toml_value_to_string, for the values without a table.
RECURSIVE toml_value_to_string(_)
toml_value_to_string(value) ==
    CASE value.tag = "String" -> value.str
      [] value.tag = "Number" -> IntegerToString(value.int)
      [] value.tag = "Bool" -> BooleanToString(value.bool)
      [] value.tag = "Sequence" ->
            Join([i \in DOMAIN value.items |-> toml_value_to_string(value.items[i])], 1)

\* HashMap::extend on a map kept as a set of <<key, value>> pairs.
MapExtend(map, other) == {p \in map : \A q \in other : q[1] # p[1]} \cup other

\* ConfigManager::yaml_value_to_config_map; YamlMappingEntries is its loop
\* `for (key, val) in mapping`, from entry i on.
RECURSIVE yaml_value_to_config_map(_, _)
RECURSIVE YamlMappingEntries(_, _, _, _)
YamlMappingEntries(map, entries, i, prefix) ==
    IF i > Len(entries) THEN map
    ELSE LET key == entries[i].key
             val == entries[i].val
         IN IF ~KeyIsStr(key) THEN YamlMappingEntries(map, entries, i + 1, prefix)
            ELSE LET full_key == FullKey(prefix, key.str)
                 IN YamlMappingEntries(
                        IF val.tag = "Mapping"
                        THEN MapExtend(map, yaml_value_to_config_map(val, full_key))
                        ELSE MapInsert(map, full_key, yaml_value_to_string(val)),
                        entries, i + 1, prefix)

yaml_value_to_config_map(value, prefix) ==
    IF value.tag = "Mapping" THEN YamlMappingEntries({}, value.entries, 1, prefix)
    ELSE IF prefix # "" THEN {<<prefix, yaml_value_to_string(value)>>}
    ELSE {}

\* ConfigManager::toml_value_to_config_map; TomlTableEntries is its loop
\* `for (key, val) in table`, from entry i on.
RECURSIVE toml_value_to_config_map(_, _)
RECURSIVE TomlTableEntries(_, _, _, _)
TomlTableEntries(map, entries, i, prefix) ==
    IF i > Len(entries) THEN map
    ELSE LET full_key == FullKey(prefix, entries[i].key.str)
             val == entries[i].val
         IN TomlTableEntries(
                IF val.tag = "Mapping"
                THEN MapExtend(map, toml_value_to_config_map(val, full_key))
                ELSE MapInsert(map, full_key, toml_value_to_string(val)),
                entries, i + 1, prefix)

toml_value_to_config_map(value, prefix) ==
    IF value.tag = "Mapping" THEN TomlTableEntries({}, value.entries, 1, prefix)
    ELSE IF prefix # "" THEN {<<prefix, toml_value_to_string(value)>>}
    ELSE {}

\* The position of a key in the order of a toml Table (a BTreeMap).
KeyRank(key_str) ==
    CASE key_str = "a" -> 1 [] key_str = "a.b" -> 2 [] key_str = "b" -> 3 [] key_str = "c" -> 4

\* What toml::from_str can return: string keys in the Table's key order, and
\* no null.
RECURSIVE IsTomlValue(_)
IsTomlValue(value) ==
    CASE value.tag = "Null" -> FALSE
      [] value.tag = "Sequence" -> \A i \in DOMAIN value.items : IsTomlValue(value.items[i])
      [] value.tag = "Mapping" ->
            /\ \A i \in DOMAIN value.entries :
                 /\ KeyIsStr(value.entries[i].key)
                 /\ IsTomlValue(value.entries[i].val)
            /\ \A i, j \in DOMAIN value.entries :
                 i < j => KeyRank(value.entries[i].key.str) < KeyRank(value.entries[j].key.str)
      [] OTHER -> TRUE

\* A parsed value has been chosen and not flattened yet.
TreeInput(tree) == [op |-> "none", tree |-> tree, map |-> {}]

\* load_file_config, Yaml: self.yaml_value_to_config_map(&yaml_value, "").
YamlValueToConfigMap ==
    /\ file_call.op = "none"
    /\ file_call' = [file_call EXCEPT !.op = "yaml_value_to_config_map",
                                      !.map = yaml_value_to_config_map(file_call.tree, "")]
    /\ UNCHANGED <<container_vars, config_vars, call_vars, event_vars>>

\* load_file_config, Toml: self.toml_value_to_config_map(&toml_value, "").
TomlValueToConfigMap ==
    /\ file_call.op = "none"
    /\ IsTomlValue(file_call.tree)
    /\ file_call' = [file_call EXCEPT !.op = "toml_value_to_config_map",
                                      !.map = toml_value_to_config_map(file_call.tree, "")]
    /\ UNCHANGED <<container_vars, config_vars, call_vars, event_vars>>

InitFlatten ==
    /\ registry = <<>>
    /\ ContainerNew
    /\ ConfigNew
    /\ CallsNew
    /\ \E tree \in Trees : file_call = TreeInput(tree)

NextFlatten ==
    \/ YamlValueToConfigMap
    \/ TomlValueToConfigMap

SpecFlatten == InitFlatten /\ [][NextFlatten]_vars

----------------------------------------------------------------------------
(* Vocabulary of the flattening claim.                                     *)

\* The text of a mapping key.
KeyText(key) == IF KeyIsStr(key) THEN key.str ELSE IntegerToString(key.int)

\* The string form of a leaf.
LeafString(value) == yaml_value_to_string(value)

\* The leaves below a mapping, each with the dot-joined path of the keys
\* that lead to it: <<path, string form>>, one element per leaf.
RECURSIVE LeavesOf(_, _)
RECURSIVE LeavesOfEntries(_, _, _)
LeavesOfEntries(entries, i, prefix) ==
    IF i > Len(entries) THEN <<>>
    ELSE LET path == IF prefix = "" THEN KeyText(entries[i].key)
                     ELSE prefix \o "." \o KeyText(entries[i].key)
         IN LeavesOf(entries[i].val, path) \o LeavesOfEntries(entries, i + 1, prefix)

LeavesOf(value, prefix) ==
    IF value.tag = "Mapping" THEN LeavesOfEntries(value.entries, 1, prefix)
    ELSE <<<<prefix, LeafString(value)>>>>

\* The keys of the mappings of a value, at every level.
RECURSIVE MappingKeys(_)
MappingKeys(value) ==
    IF value.tag # "Mapping" THEN {}
    ELSE {value.entries[i].key : i \in DOMAIN value.entries}
         \cup UNION {MappingKeys(value.entries[i].val) : i \in DOMAIN value.entries}

Flattened == file_call.op \in {"yaml_value_to_config_map", "toml_value_to_config_map"}

\* The flat map holds exactly one entry per leaf of the value: the leaf's
\* path and string form.
OneEntryPerLeaf ==
    LET leaves == LeavesOf(file_call.tree, "")
    IN /\ file_call.map = {leaves[i] : i \in DOMAIN leaves}
       /\ Cardinality(file_call.map) = Len(leaves)

----------------------------------------------------------------------------
(* A registry with several definitions of one type identity                *)
(* (container.rs, initialize): def_map keeps the last one, and the second  *)
(* loop visits every definition.                                           *)

\* The type identities the definitions of such a registry are drawn from.
DuplicateTypes == {"A", "B"}

\* A ComponentDefinition whose creator and scope are its own, not its type's.
MakeDuplicateDef(t, deps, scope, fails) ==
    [type_id |-> t, type_name |-> TypeName(t), scope |-> scope,
     dependencies |-> deps, creator_fails |-> fails]

\* ComponentContainer::new() over an inventory of as many definitions as
\* DefinedTypes has, of at most two type identities: at least two
\* definitions share one.
InitDuplicates ==
    /\ \E types \in [DOMAIN DefinedTypes -> DuplicateTypes] :
       \E deps \in [DOMAIN DefinedTypes -> DepLists] :
       \E proto \in DuplicateTypes \cup {NoType} :
       \E fails \in [DOMAIN DefinedTypes -> BOOLEAN] :
          /\ SumLen(deps, Len(DefinedTypes)) <= MaxEdges
          /\ registry = [i \in DOMAIN DefinedTypes |->
                            MakeDuplicateDef(types[i], deps[i],
                                IF types[i] = proto THEN "Prototype" ELSE "Singleton",
                                fails[i])]
    /\ ContainerNew
    /\ ConfigNew
    /\ CallsNew
    /\ file_call = NoCall

NextDuplicates ==
    \/ Initialize(Main)
    \/ InitializeLoop(Main)
    \/ ResolveBeanEnter(Main)
    \/ ResolveBeanDependency(Main)
    \/ ResolveBeanCreate(Main)

SpecDuplicates == InitDuplicates /\ [][NextDuplicates]_vars

\* The type identities with two or more definitions, all of them Singletons.
DuplicatedSingletons ==
    {t \in TypeIds :
        /\ \E i, j \in DOMAIN registry :
             i # j /\ registry[i].type_id = t /\ registry[j].type_id = t
        /\ \A i \in DOMAIN registry :
             registry[i].type_id = t => registry[i].scope = "Singleton"}

\* The creator calls of type t made by any initialize() call so far.
AllInvocationsOf(t) == {j \in DOMAIN invocations : invocations[j].type_id = t}

\* The creators def_map leads to all succeed.
MappedFactoriesSucceed == \A t \in TypeIds : ~DefMap(t).creator_fails

\* C31: a type identity with two Singleton definitions is not rejected.  A
\* first initialize() over a registry that is acyclic, has every dependency
\* defined and whose mapped creators succeed returns Ok; and whenever
\* initialize() returns Ok, the creator of the duplicated type has been
\* invoked exactly once and the store holds the instance that invocation
\* returned, untouched by the visits of the further definitions.
C31_DuplicateNotRejected ==
    /\ (Returned /\ n_calls = 1 /\ MappedFactoriesSucceed /\ AllDepsDefined /\ ~HasCycle)
          => result[Main] = OkResult
    /\ (Returned /\ result[Main] = OkResult) =>
          \A t \in DuplicatedSingletons :
              /\ Cardinality(AllInvocationsOf(t)) = 1
              /\ \A j \in AllInvocationsOf(t) : components[t] = invocations[j].inst

\* initialize() has returned Ok over a registry in which the duplicated
\* Singleton is defined first and last, with another definition between.
C31_Witness ==
    /\ Returned /\ result[Main] = OkResult
    /\ registry[1].type_id = registry[3].type_id
    /\ registry[1].type_id # registry[2].type_id
    /\ registry[1].type_id \in DuplicatedSingletons
    /\ registry[1].type_id \in DepSet(registry[2].type_id)

----------------------------------------------------------------------------
(* C32 *)

\* ApplicationContext::initialize() has returned an error.
ContextReturnedErr ==
    /\ context_call.op = "initialize"
    /\ context_call.phase = "returned"
    /\ context_call.result # OkResult

----------------------------------------------------------------------------
(* C33 *)

\* The creator calls of the current initialize() that returned an instance.
CreatedByThisCall == {j \in ThisCall : invocations[j].inst # NoInstance}

\* C33: the component_count of InitializationStarted is the number of
\* definitions in the registry, and the component_count of
\* InitializationCompleted is the number of components the initialize() call
\* that publishes it has successfully initialized.
C33_ComponentCounts ==
    /\ \A i \in EventsOfType(events, "InitializationStarted") :
         events[i].component_count = Len(registry)
    /\ (Returned /\ result[Main] = OkResult) =>
         /\ events[Len(events)].type = "InitializationCompleted"
         /\ events[Len(events)].component_count = Cardinality(CreatedByThisCall)

----------------------------------------------------------------------------
(* C34 *)

\* C34: within profiles the last activate_profile call wins, also when it
\* names a profile that is active already: right after a successful
\* activate_profile(name), get_property returns name's value for every key
\* that profile defines.
C34_LastActivateCallWins ==
    [][\A name \in ProfileNames :
         (ActivateProfile(name) /\ profiles[name].present) =>
             \A key \in Keys :
                 profiles[name].properties[key] # Absent =>
                     get_property(key)' = profiles[name].properties[key]]_vars

----------------------------------------------------------------------------
(* ApplicationContext::set_config and get_config.                          *)

\* The &str values given to set_config.
ConfigTexts == Strings \cup {""}

\* ApplicationContext::get_config: get_string_or_default(key, "").
get_config(key) == get_string_or_default(key, "").string

\* ConfigurationChangedEvent { key, old_value, new_value, timestamp }; the
\* timestamp is left out.
ConfigurationChangedEvent(key, old_value, new_value) ==
    [type |-> "ConfigurationChanged", key |-> key, old_value |-> old_value,
     new_value |-> new_value]

\* Mutant of old_value_opt: the old value is always Some.
old_value_some(old_value) == SomeString(old_value)

\* if old_value.is_empty() { None } else { Some(old_value) }.
old_value_opt(old_value) == IF old_value = "" THEN None ELSE SomeString(old_value)

\* ApplicationContext::set_config(key, value): get_config(key), which calls
\* get(key) and so may fill the cache; ConfigManager::set; the event is
\* published with publish().  context_call keeps the arguments, what get(key)
\* returned inside get_config, and the event.
SetConfig(key, value) ==
    LET old_value == get_config(key)
        event == ConfigurationChangedEvent(key, old_value_opt(old_value), value)
    IN /\ cache' = [CacheAfterGet(key) EXCEPT ![key] = StringValue(value)]
       /\ overrides' = [overrides EXCEPT ![key] = StringValue(value)]
       /\ publisher_log' = [publisher_log EXCEPT !.calls = PlainCalls(event.type),
                                                 !.op = "publish"]
       /\ context_call' = [op |-> "set_config", phase |-> "returned", call |-> 0,
                           first |-> 1, result |-> NoResult, key |-> key,
                           value |-> value, got |-> GetResult(key), event |-> event]
       /\ UNCHANGED <<sources, profiles, active_profiles>>
       /\ UNCHANGED <<container_vars, call_vars, event_publisher, file_call>>

\* ApplicationContext::builder().with_config_source(source).build(): a
\* context whose ConfigManager has one source.
InitSetConfig ==
    /\ registry = <<>>
    /\ ContainerNew
    /\ \E props \in PropertyMaps : sources = <<PropertiesSource(props)>>
    /\ cache = ClearedCache
    /\ profiles = [p \in ProfileNames |-> NoProfile]
    /\ active_profiles = <<>>
    /\ overrides = [k \in Keys |-> NoValue]
    /\ CallsNew
    /\ file_call = NoCall

NextSetConfig ==
    \/ Subscribe("ConfigurationChanged")
    \/ SubscribeContextAware("ConfigurationChanged")
    \/ \E key \in Keys : \E value \in ConfigTexts : SetConfig(key, value)

SpecSetConfig == InitSetConfig /\ [][NextSetConfig]_vars

\* What every set_config(key, value) does besides choosing old_value: each
\* plain listener of ConfigurationChanged is called once, in subscription
\* order, and nothing else is; the event carries key and value; get_config(key)
\* returns value afterwards.
SetConfigPublishes(key, value) ==
    LET calls == publisher_log'.calls
        event == context_call'.event
    IN /\ \A i \in DOMAIN calls :
            /\ calls[i].kind = "plain"
            /\ calls[i].event = "ConfigurationChanged"
            /\ calls[i].listener \in Registered("ConfigurationChanged", "plain")
       /\ \A id \in Registered("ConfigurationChanged", "plain") :
            Cardinality(CallsTo(calls, id)) = 1
       /\ event.type = "ConfigurationChanged"
       /\ event.key = key
       /\ event.new_value = value
       /\ get_config(key)' = value

\* C35 as stated: old_value is what get_config(key) resolved just before the
\* call, and None only when the key had no value.
C35_AsStated ==
    [][\A key \in Keys : \A value \in ConfigTexts :
          SetConfig(key, value) =>
              /\ SetConfigPublishes(key, value)
              /\ context_call'.event.old_value =
                    IF GetResult(key) = NoValue THEN None
                    ELSE SomeString(get_config(key))]_vars

\* C35: set_config(key, value) publishes one ConfigurationChanged event to
\* the plain listeners only, with the key, new_value = value, and old_value =
\* what get_config(key) returned just before the call, or None when that was
\* the empty string (the key had no value, or its value was empty); afterwards
\* get_config(key) returns value.
C35_SetConfigPublishes ==
    [][\A key \in Keys : \A value \in ConfigTexts :
          SetConfig(key, value) =>
              /\ SetConfigPublishes(key, value)
              /\ context_call'.event.old_value =
                    IF get_config(key) = "" THEN None
                    ELSE SomeString(get_config(key))]_vars

\* set_config replaced a value while a plain and a context-aware listener of
\* ConfigurationChanged were subscribed, and the plain one was called.
C35_Witness ==
    /\ context_call.op = "set_config"
    /\ publisher_log.op = "publish"
    /\ context_call.got # NoValue
    /\ context_call.event.old_value = SomeString("1")
    /\ context_call.event.new_value = "2"
    /\ Registered("ConfigurationChanged", "context_aware") # {}
    /\ Len(publisher_log.calls) = 1

----------------------------------------------------------------------------
(* resolve_bean's last part in two steps: what a listener of               *)
(* ComponentCreated finds when the event is delivered.                     *)

\* resolve_bean, from the creator call to the return of
\* lifecycle_publisher.publish(ComponentCreated): the listeners run inside
\* this call, before the lines that follow it.  A failed creator returns as in
\* ResolveBeanCreate.
ResolveBeanPublish(th) ==
    /\ pc[th] = "loop"
    /\ stack[th] # <<>>
    /\ Top(th).entered
    /\ Top(th).dep_idx > Len(DefMap(Top(th).type_id).dependencies)
    /\ LET t == Top(th).type_id
           def == DefMap(t)
       IN
       /\ invocations' = Append(invocations,
              [type_id |-> t, deps_map |-> Top(th).deps_map, call |-> n_calls,
               inst |-> IF def.creator_fails THEN NoInstance ELSE NewInstance(t)])
       /\ IF def.creator_fails
          THEN /\ initializing' = InitializingAfterOwnError(t) \cap
                                      InitializingAfterPropagation(Callers(th))
               /\ ReturnErr(th, CreatorError(def))
               /\ UNCHANGED events
          ELSE /\ events' = Append(events,
                      Event("ComponentCreated", def.type_name, t, 0))
               /\ pc' = [pc EXCEPT ![th] = "dispatch"]
               /\ UNCHANGED <<initializing, stack, result, errors, init_idx>>
    /\ UNCHANGED <<registry, components, stats, next_inst, snapshot, manual, n_calls>>
    /\ UNCHANGED <<config_vars, call_vars, event_vars, file_call>>

\* resolve_bean, after publish returned: self.initializing.remove, the insert
\* into the store for a Singleton, the stats, Ok(instance).
ResolveBeanInsert(th) ==
    /\ pc[th] = "dispatch"
    /\ LET t == Top(th).type_id
           def == DefMap(t)
           inst == NewInstance(t)
       IN
       /\ initializing' = initializing \ {t}
       /\ components' = StoreAfterCreate(def, inst)
       /\ stats' = stats \cup {t}
       /\ next_inst' = next_inst + 1
       /\ IF Len(stack[th]) > 1
          THEN /\ stack' = [stack EXCEPT ![th] =
                      [i \in 1..(Len(@) - 1) |->
                          IF i = Len(@) - 1
                          THEN [@[i] EXCEPT !.deps_map[t] = inst, !.dep_idx = @ + 1]
                          ELSE @[i]]]
               /\ UNCHANGED init_idx
          ELSE /\ stack' = [stack EXCEPT ![th] = <<>>]
               /\ init_idx' = [init_idx EXCEPT ![th] = @ + 1]
       /\ pc' = [pc EXCEPT ![th] = "loop"]
    /\ UNCHANGED <<registry, events, result, errors, invocations, snapshot, manual,
                   n_calls>>
    /\ UNCHANGED <<config_vars, call_vars, event_vars, file_call>>

NextDispatch ==
    \/ \E t \in TypeIds : RegisterComponent(Main, t)
    \/ Initialize(Main)
    \/ InitializeLoop(Main)
    \/ ResolveBeanEnter(Main)
    \/ ResolveBeanDependency(Main)
    \/ ResolveBeanPublish(Main)
    \/ ResolveBeanInsert(Main)

SpecDispatch == Init /\ [][NextDispatch]_vars

\* ComponentCreated for the component on top of the stack is being delivered.
Dispatching == pc[Main] = "dispatch"

\* The declared dependencies of t whose definition is Singleton-scoped.
SingletonDeps(t) == {d \in DepSet(t) : DefMap(d) # NoDef /\ DefMap(d).scope = "Singleton"}

\* C36: while ComponentCreated for a Singleton X is delivered, X's factory has
\* returned an instance, every Singleton-scoped declared dependency of X is in
\* the store, X is not in the store and X is still in the visiting set; X
\* enters the store only in the step after the delivery.
C36_StateAtDispatch ==
    Dispatching =>
        LET X == Top(Main).type_id
            last == invocations[Len(invocations)]
            event == events[Len(events)]
        IN /\ event.type = "ComponentCreated"
           /\ event.component_type_id = X
           /\ last.type_id = X
           /\ last.inst # NoInstance
           /\ DefMap(X).scope = "Singleton" =>
                /\ \A d \in SingletonDeps(X) : components[d] # NoInstance
                /\ components[X] = NoInstance
                /\ X \in initializing

\* ComponentCreated is delivered for a Singleton that was resolved as a
\* dependency and has itself a Singleton dependency built by the same call.
C36_Witness ==
    /\ Dispatching
    /\ Len(stack[Main]) >= 2
    /\ DefMap(Top(Main).type_id).scope = "Singleton"
    /\ \E d \in SingletonDeps(Top(Main).type_id) :
          \E j \in ThisCall : invocations[j].type_id = d /\ invocations[j].inst = components[d]

----------------------------------------------------------------------------
(* C37 *)

\* Call number c of initialize() returned Ok(()).
CallSucceeded(c) == c <= n_calls /\ \A i \in DOMAIN errors : errors[i].call # c

\* The second call of initialize() has returned and the first had returned Ok.
ReturnedAfterSuccess == Returned /\ n_calls = 2 /\ CallSucceeded(1)

\* C37: a call of initialize() that follows a successful one returns Ok,
\* invokes no Singleton factory and leaves every store entry as it found it.
C37_IdempotentAfterSuccess ==
    ReturnedAfterSuccess =>
        /\ result[Main] = OkResult
        /\ \A j \in ThisCall : DefMap(invocations[j].type_id).scope # "Singleton"
        /\ components = snapshot[Main]

\* The second call returned after a first one that had built a Singleton with
\* a dependency; a Prototype definition was resolved again by the second.
C37_Witness ==
    /\ ReturnedAfterSuccess
    /\ ThisCall # {}
    /\ \E j \in InvocationsOf(registry[1].type_id, 1) \cup InvocationsOf(registry[2].type_id, 1) :
          /\ DefMap(invocations[j].type_id).scope = "Singleton"
          /\ DepSet(invocations[j].type_id) # {}
          /\ components[invocations[j].type_id] = invocations[j].inst

----------------------------------------------------------------------------
(* C38 *)

\* C38: over an acyclic registry no call of initialize() returns
\* CircularDependency; a call that follows one that failed with NotFound or
\* CreationFailed, with nothing registered by hand, fails with the same kind.
C38_NoCycleErrorWithoutCycle ==
    /\ ~HasCycle =>
          \A i \in DOMAIN errors : errors[i].err.kind # "CircularDependency"
    /\ (Returned /\ n_calls = 2 /\ manual = {}) =>
          \A i \in DOMAIN errors :
              (errors[i].call = 1 /\ errors[i].err.kind \in {"NotFound", "CreationFailed"}) =>
                  result[Main].kind = errors[i].err.kind

----------------------------------------------------------------------------
(* initialize() called from two threads on one container.  Every step of   *)
(* resolve_bean works on the shared DashSet `initializing` and the shared   *)
(* DashMap `components`; the steps of the two calls interleave.            *)

\* A registry that is acyclic, declares only defined dependencies and whose
\* creators all return Ok.
InitConcurrent ==
    /\ \E deps \in [1..Len(DefinedTypes) -> DepLists] :
       \E proto \in {DefinedTypes[i] : i \in DOMAIN DefinedTypes} \cup {NoType} :
          /\ SumLen(deps, Len(DefinedTypes)) <= MaxEdges
          /\ registry = [i \in DOMAIN DefinedTypes |->
                            MakeDef(DefinedTypes[i], deps[i], proto, NoType)]
    /\ ~HasCycle
    /\ AllDepsDefined
    /\ ContainerNew
    /\ ConfigNew
    /\ CallsNew
    /\ file_call = NoCall

NextConcurrent ==
    \/ \E th \in Threads : Initialize(th)
    \/ \E th \in Threads : InitializeLoop(th)
    \/ \E th \in Threads : ResolveBeanEnter(th)
    \/ \E th \in Threads : ResolveBeanDependency(th)
    \/ \E th \in Threads : ResolveBeanCreate(th)

SpecConcurrent == InitConcurrent /\ [][NextConcurrent]_vars

\* C39 as stated: both calls return Ok and each Singleton factory is invoked
\* at most once.
C39_AsStated ==
    /\ \A th \in Threads : result[th] \in {NoResult, OkResult}
    /\ \A t \in SingletonTypes : Cardinality(AllInvocationsOf(t)) <= 1

\* C39: two initialize() calls over an acyclic registry whose factories all
\* succeed are not isolated from each other.  A call that runs while the other
\* thread has not started returns Ok with each Singleton factory invoked at
\* most once; once both threads have called, a call may fail, but only with
\* CircularDependency, and a Singleton factory is invoked at most once per
\* call, that is at most twice.
C39_ConcurrentInitialize ==
    /\ \A i \in DOMAIN errors : errors[i].err.kind = "CircularDependency"
    /\ \A t \in SingletonTypes : Cardinality(AllInvocationsOf(t)) <= n_calls
    /\ n_calls <= 1 => \A th \in Threads : result[th] \in {NoResult, OkResult}

\* Both threads called initialize() and both calls have returned: the main
\* thread's with Ok, the worker's with CircularDependency, and a Singleton
\* factory ran twice.
C39_Witness ==
    /\ result[Main] = OkResult
    /\ result["worker"].kind = "CircularDependency"
    /\ \E t \in SingletonTypes : Cardinality(AllInvocationsOf(t)) = 2

----------------------------------------------------------------------------
(* C40 *)

\* C40: for a key that was never given a runtime override, get(key) returns
\* what the uncached resolution over the current active profiles and sources
\* returns, also after a profile was activated or deactivated.
C40_CacheTransparent ==
    \A key \in Keys : overrides[key] = NoValue => GetResult(key) = Resolve(key)

====
